---- MODULE Spec2Model ----
(* SpectrumSynth: synthetic XPS spectra from tabulated shell data.         *)
(*                                                                         *)
(* Conventions of the model                                                *)
(*  - energies (photon, binding, kinetic, window, work function) are      *)
(*    integers counting tenths of an eV (870.2 eV is 8702);               *)
(*  - cross-sections and beta parameters are binary floating-point        *)
(*    numbers [m, e] (value m * 2^e) with a MantBits-bit mantissa and     *)
(*    round-to-nearest-even, the arithmetic Python floats perform with a  *)
(*    53-bit mantissa;                                                     *)
(*  - a DataFrame is a sequence of rows; the row's position is its index  *)
(*    label (RangeIndex), counted from 1;                                  *)
(*  - a shell label, a file name and a line of text are sequences of      *)
(*    one-character strings;                                               *)
(*  - the numerals of an Auger record are held in tenths, like energies;   *)
(*  - stdout holds what the program printed, one [kind, text] per line.    *)
EXTENDS Integers, Sequences, FiniteSets, TLC

VARIABLES
    prog,        \* which program runs in this behaviour
    pc,          \* position of the program
    frames,      \* heap of DataFrame objects (scale program)
    T,           \* value of the parent table when the scale program starts
    weights,     \* <<w1, w2>>: the two factors of the scale program
    children,    \* references returned by scale_cross_section so far
    fs,          \* database directory: file name -> [exists, readable, content]
    filename,    \* read program: the argument of safe_read_csv
    stdout,      \* the lines printed: [kind, text]
    built,       \* element records constructed so far, by name
    elements_data, \* return value of generate_all_element_data
    element,     \* argument of the synthesizer call
    setPhoton,   \* argument: sequence of photon energies
    emax,        \* argument: upper window bound
    emin,        \* argument: lower window bound
    ret,         \* argument: work function
    plot_data,   \* return value of synthSpectrum_interactive
    bars,        \* what synthSpectrum draws, one entry per photon energy
    raised,      \* exception raised by the call, or "none"
    first_call,  \* arguments and return value of the first call of a session
    table,       \* lookup program: the orbital searched
    query,       \* lookup program: the kinetic energy e
    selected,    \* lookup program: <<nearestIdx, nearestRow>> once selected
    auger_file,  \* Auger reference file: [name, exists, lines]
    binding_energies, \* Auger program: the labels of the binding table
    auger_peaks, \* return value of read_auger_file
    processed    \* return value of process_auger_data

vars == <<prog, pc, frames, T, weights, children, fs, stdout, built,
          elements_data, filename,
          element, setPhoton, emax, emin, ret, plot_data, bars, raised,
          first_call,
          table, query, selected,
          auger_file, binding_energies, auger_peaks, processed>>

scaleVars == <<frames, T, weights, children>>
buildVars == <<fs, stdout, built, elements_data, filename>>
synthVars == <<element, setPhoton, emax, emin, ret, plot_data, bars, raised,
               first_call>>
lookupVars == <<table, query, selected>>
augerVars == <<auger_file, binding_energies, auger_peaks, processed>>

(***************************************************************************)
(* Bounds                                                                  *)
(***************************************************************************)
MantBits == 5        \* mantissa width of the modelled floats
MaxPresent == 1      \* at most this many database files exist, or are missing
MaxPhotons == 2      \* length of the photon-energy sequence
MaxShells == 2       \* sub-shells of a synthesizer test element
MaxQueryStep == 24   \* lookup queries run up to MaxQueryStep * 50 eV

(***************************************************************************)
(* Floating point                                                          *)
(***************************************************************************)
RECURSIVE Pow2(_)
Pow2(k) == IF k <= 0 THEN 1 ELSE 2 * Pow2(k - 1)

Zero == [m |-> 0, e |-> 0]

\* number of bits of a positive integer
RECURSIVE BitLen(_)
BitLen(n) == IF n = 0 THEN 0 ELSE 1 + BitLen(n \div 2)

\* the float nearest to M * 2^E (M >= 0), ties to the even mantissa
Round(M, E) ==
    IF M = 0 THEN Zero
    ELSE LET b == BitLen(M) IN
         IF b <= MantBits
         THEN [m |-> M * Pow2(MantBits - b), e |-> E - (MantBits - b)]
         ELSE LET s    == b - MantBits
                  q    == M \div Pow2(s)
                  r    == M % Pow2(s)
                  half == Pow2(s - 1)
                  up   == r > half \/ (r = half /\ q % 2 = 1)
                  q1   == IF up THEN q + 1 ELSE q
              IN  IF q1 = Pow2(MantBits)
                  THEN [m |-> Pow2(MantBits - 1), e |-> E + s + 1]
                  ELSE [m |-> q1, e |-> E + s]

\* float product a * b
FMul(a, b) == Round(a.m * b.m, a.e + b.e)

\* float sum a + b
FAdd(a, b) ==
    IF a.m = 0 THEN b
    ELSE IF b.m = 0 THEN a
    ELSE IF a.e >= b.e
         THEN Round(a.m * Pow2(a.e - b.e) + b.m, b.e)
         ELSE Round(b.m * Pow2(b.e - a.e) + a.m, a.e)

\* float quotient of two positive integers, num / den, and the value of a
\* decimal literal num/den: the quotient is taken with MantBits + 2 bits and
\* a sticky bit for the remainder, then rounded once
RECURSIVE ShiftFor(_, _, _)
ShiftFor(num, den, k) ==
    IF BitLen((num * Pow2(k)) \div den) >= MantBits + 2 THEN k
    ELSE ShiftFor(num, den, k + 1)

FDiv(num, den) ==
    IF num = 0 THEN Zero
    ELSE LET k  == ShiftFor(num, den, 0)
             q  == (num * Pow2(k)) \div den
             st == IF (num * Pow2(k)) % den = 0 THEN 0 ELSE 1
         IN  Round(2 * q + st, 0 - k - 1)

\* |a - b| <= n units in the last place of b, for floats a, b >= 0
WithinUlps(a, b, n) ==
    LET lo == IF a.e <= b.e THEN a.e ELSE b.e
        av == a.m * Pow2(a.e - lo)
        bv == b.m * Pow2(b.e - lo)
        d  == IF av >= bv THEN av - bv ELSE bv - av
    IN  d <= n * Pow2(b.e - lo)


(***************************************************************************)
(* DataFrames                                                              *)
(***************************************************************************)
Row(pe, c0, c1, c2, b0, b1, b2) ==
    [PhotonEnergy |-> pe, cs0 |-> c0, cs1 |-> c1, cs2 |-> c2,
     beta0 |-> b0, beta1 |-> b1, beta2 |-> b2]

\* the DataFrame safe_read_csv returns for a missing file
DummyData ==
    << Row(1000,  FDiv(1, 1),  Zero, Zero, FDiv(3, 2), Zero, Zero),
       Row(2000,  FDiv(4, 5),  Zero, Zero, FDiv(7, 5), Zero, Zero),
       Row(5000,  FDiv(1, 2),  Zero, Zero, FDiv(13, 10), Zero, Zero),
       Row(10000, FDiv(3, 10), Zero, Zero, FDiv(6, 5), Zero, Zero) >>

\* df[col] * factor, elementwise (used by the variants below)
TimesCs0(df, factor) == [i \in 1..Len(df) |-> FMul(df[i].cs0, factor)]
TimesCs1(df, factor) == [i \in 1..Len(df) |-> FMul(df[i].cs1, factor)]
TimesCs2(df, factor) == [i \in 1..Len(df) |-> FMul(df[i].cs2, factor)]

\* heap after  frames[r]["cs0"] = col  (and likewise cs1, cs2)
SetCs0(h, r, col) ==
    [h EXCEPT ![r] = [i \in 1..Len(h[r]) |-> [h[r][i] EXCEPT !.cs0 = col[i]]]]
SetCs1(h, r, col) ==
    [h EXCEPT ![r] = [i \in 1..Len(h[r]) |-> [h[r][i] EXCEPT !.cs1 = col[i]]]]
SetCs2(h, r, col) ==
    [h EXCEPT ![r] = [i \in 1..Len(h[r]) |-> [h[r][i] EXCEPT !.cs2 = col[i]]]]

\* scale_cross_section without the copy: scaled_df is the caller's object
scale_cross_section_nocopy(h, df, factor) ==
    LET h2 == SetCs0(h,  df, TimesCs0(h[df],  factor))
        h3 == SetCs1(h2, df, TimesCs1(h2[df], factor))
        h4 == SetCs2(h3, df, TimesCs2(h3[df], factor))
    IN  [heap |-> h4, ref |-> df]

\* scale_cross_section that forgets the cs2 column
scale_cross_section_nocs2(h, df, factor) ==
    LET h1 == Append(h, h[df])
        r  == Len(h1)
        h2 == SetCs0(h1, r, TimesCs0(h1[df], factor))
        h3 == SetCs1(h2, r, TimesCs1(h2[df], factor))
    IN  [heap |-> h3, ref |-> r]

\* scale_cross_section(df, factor) on the heap h, df a reference into h:
\* the new heap and the reference of the returned DataFrame.  scaled_df is a
\* copy of df, a new object, so the three column assignments read df's
\* columns and write the copy's
scale_cross_section(h, df, factor) ==
    LET scaled_df == [i \in 1..Len(h[df]) |->
                        [h[df][i] EXCEPT !.cs0 = FMul(@, factor),
                                         !.cs1 = FMul(@, factor),
                                         !.cs2 = FMul(@, factor)]]
    IN  [heap |-> Append(h, scaled_df), ref |-> Len(h) + 1]

\* the value scale_cross_section returns for a table value
Scaled(df, factor) ==
    LET res == scale_cross_section(<<df>>, 1, factor)
    IN  res.heap[res.ref]

(***************************************************************************)
(* Inputs of the scale program                                             *)
(***************************************************************************)
One == FDiv(1, 1)

\* the complementary factors a/b and (b-a)/b written as Python writes 1/3, 2/3
MaxDen == 5
WeightPairs ==
    { <<FDiv(ab[1], ab[2]), FDiv(ab[2] - ab[1], ab[2])>> :
        ab \in { x \in (1..MaxDen) \X (2..MaxDen) : x[1] < x[2] } }

Mantissas == Pow2(MantBits - 1) .. (Pow2(MantBits) - 1)

\* the mantissa read backwards within its range
Mirror(m) == Pow2(MantBits - 1) + (Pow2(MantBits) - 1 - m)

\* a one-sample table whose three cross-sections use the mantissa m
OneRow(m) ==
    << Row(3000, [m |-> m, e |-> 0 - MantBits],
                 [m |-> Mirror(m), e |-> 1 - MantBits],
                 [m |-> m, e |-> 2 - MantBits],
                 FDiv(3, 2), FDiv(1, 2), FDiv(1, 4)) >>

ScaleTables ==
    { OneRow(m) : m \in Mantissas } \cup { DummyData, DummyData \o OneRow(Pow2(MantBits) - 1) }


NoElement == [name |-> "", binding |-> <<>>, shells |-> <<>>]

\* values of the variables a program does not use
ScaleIdle  == frames = <<>> /\ T = <<>> /\ weights = <<>> /\ children = <<>>
BuildIdle  == /\ fs = <<>> /\ stdout = <<>> /\ built = <<>>
              /\ elements_data = <<>> /\ filename = <<>>
SynthIdle  == /\ element = NoElement /\ setPhoton = <<>> /\ emax = 0 /\ emin = 0
              /\ ret = 0 /\ plot_data = <<>> /\ bars = <<>> /\ raised = "none"
              /\ first_call = <<>>
LookupIdle == table = <<>> /\ query = 0 /\ selected = <<>>
AugerIdle  == /\ auger_file = <<>> /\ binding_energies = <<>>
              /\ auger_peaks = <<>> /\ processed = <<>>

(***************************************************************************)
(* The scale program: test_cross_section_scaling.py                        *)
(*   child1 = scale_cross_section(parent, w1)                              *)
(*   child2 = scale_cross_section(parent, w2)                              *)
(***************************************************************************)
InitScale ==
    /\ prog = "scale" /\ pc = "start"
    /\ T \in ScaleTables
    /\ frames = <<T>>
    /\ weights \in WeightPairs
    /\ children = <<>>
    /\ BuildIdle /\ SynthIdle /\ LookupIdle /\ AugerIdle

ScaleFirst ==
    /\ prog = "scale" /\ pc = "start"
    /\ LET res == scale_cross_section(frames, 1, weights[1])
       IN  /\ frames' = res.heap
           /\ children' = <<res.ref>>
    /\ pc' = "half"
    /\ UNCHANGED <<prog, T, weights, buildVars, synthVars, lookupVars, augerVars>>

ScaleSecond ==
    /\ prog = "scale" /\ pc = "half"
    /\ LET res == scale_cross_section(frames, 1, weights[2])
       IN  /\ frames' = res.heap
           /\ children' = Append(children, res.ref)
    /\ pc' = "done"
    /\ UNCHANGED <<prog, T, weights, buildVars, synthVars, lookupVars, augerVars>>

NextScale == ScaleFirst \/ ScaleSecond

SpecScale == InitScale /\ [][NextScale]_vars

\* the two children and the parent object once both calls have returned
Child1 == frames[children[1]]
Child2 == frames[children[2]]
Parent == frames[1]

\* C7 as stated: the children's cs0, cs1 and cs2 sum exactly to the parent's
\* at every sample index
C7_ExactConservation ==
    pc = "done" /\ prog = "scale" =>
        \A i \in 1..Len(T) :
            /\ FAdd(Child1[i].cs0, Child2[i].cs0) = T[i].cs0
            /\ FAdd(Child1[i].cs1, Child2[i].cs1) = T[i].cs1
            /\ FAdd(Child1[i].cs2, Child2[i].cs2) = T[i].cs2

\* C7 (amended): for complementary factors the children have as many samples
\* as the parent and their cs0, cs1 and cs2 sum to the parent's value up to
\* floating-point rounding, at most 2 units in the last place of the parent's
\* value, at every sample index
C7_ConservationWithinRounding ==
    pc = "done" /\ prog = "scale" /\ FAdd(weights[1], weights[2]) = One =>
        /\ Len(Child1) = Len(T) /\ Len(Child2) = Len(T)
        /\ \A i \in 1..Len(T) :
            /\ WithinUlps(FAdd(Child1[i].cs0, Child2[i].cs0), T[i].cs0, 2)
            /\ WithinUlps(FAdd(Child1[i].cs1, Child2[i].cs1), T[i].cs1, 2)
            /\ WithinUlps(FAdd(Child1[i].cs2, Child2[i].cs2), T[i].cs2, 2)

\* both children of a parent with non-zero cross-sections exist, split by
\* 1/3 and 2/3
C7_Witness ==
    /\ pc = "done" /\ prog = "scale"
    /\ weights = <<FDiv(1, 3), FDiv(2, 3)>>
    /\ FAdd(weights[1], weights[2]) = One
    /\ \E i \in 1..Len(T) : T[i].cs0 # Zero /\ T[i].cs2 # Zero
    /\ \E i \in 1..Len(T) : FAdd(Child1[i].cs0, Child2[i].cs0) # T[i].cs0

\* C8: scale_cross_section changes only cs0, cs1 and cs2 of a new table: each
\* returned table has the parent's number of samples and its photon energy,
\* beta0, beta1 and beta2 at every index, the parent object still holds its
\* original value, and the two children are distinct objects, distinct from
\* the parent
C8_ScaleFrame ==
    prog = "scale" =>
        /\ Parent = T
        /\ \A k \in 1..Len(children) :
            /\ children[k] # 1
            /\ \A j \in 1..Len(children) : j # k => children[j] # children[k]
            /\ Len(frames[children[k]]) = Len(T)
            /\ \A i \in 1..Len(T) :
                /\ frames[children[k]][i].PhotonEnergy = T[i].PhotonEnergy
                /\ frames[children[k]][i].beta0 = T[i].beta0
                /\ frames[children[k]][i].beta1 = T[i].beta1
                /\ frames[children[k]][i].beta2 = T[i].beta2
                /\ frames[children[k]][i].cs0 = FMul(T[i].cs0, weights[k])
                /\ frames[children[k]][i].cs1 = FMul(T[i].cs1, weights[k])
                /\ frames[children[k]][i].cs2 = FMul(T[i].cs2, weights[k])

\* the same parent has been scaled twice, with different factors, and has
\* non-zero beta parameters
C8_Witness ==
    /\ prog = "scale" /\ pc = "done"
    /\ weights[1] # weights[2]
    /\ Len(children) = 2
    /\ Child1 # Child2 /\ Child1 # T
    /\ \E i \in 1..Len(T) : T[i].beta0 # Zero /\ T[i].beta1 # Zero

(***************************************************************************)
(* The spectrum synthesizer: interactive_spectrum.py, synthSpectrum.py     *)
(***************************************************************************)
Abs(x) == IF x < 0 THEN 0 - x ELSE x

Min2(a, b) == IF a <= b THEN a ELSE b

\* s[mask]: the entries of s at the positions where mask holds, in order
RECURSIVE Masked(_, _, _)
Masked(s, mask, i) ==
    IF i > Len(s) THEN <<>>
    ELSE (IF mask[i] THEN <<s[i]>> ELSE <<>>) \o Masked(s, mask, i + 1)

\* Series.idxmin(): a left-to-right scan that keeps the first minimum
RECURSIVE idxminScan(_, _, _)
idxminScan(s, i, best) ==
    IF i > Len(s) THEN best
    ELSE idxminScan(s, i + 1, IF s[i] < s[best] THEN i ELSE best)

\* a scan that keeps the last minimum
RECURSIVE idxminScanLast(_, _, _)
idxminScanLast(s, i, best) ==
    IF i > Len(s) THEN best
    ELSE idxminScanLast(s, i + 1, IF s[i] <= s[best] THEN i ELSE best)

idxmin_last(s) == idxminScanLast(s, 2, 1)

idxmin(s) == idxminScan(s, 2, 1)

\* (orbital["Photon Energy"] - e).abs().idxmin()
nearestIdx(orbital, e) ==
    idxmin([i \in 1..Len(orbital) |-> Abs(orbital[i].PhotonEnergy - e)])

\* element[1].iloc[0,:].values and element[1].columns
BindingValues(el) == [i \in 1..Len(el.binding) |-> el.binding[i].energy]
Columns(el)       == [i \in 1..Len(el.binding) |-> el.binding[i].label]

\* pos = eV - element[1].iloc[0,:].values - ret
Pos_reversed(el, eV, w) ==
    [i \in 1..Len(el.binding) |-> BindingValues(el)[i] - eV - w]

Pos(el, eV, w) == [i \in 1..Len(el.binding) |-> eV - BindingValues(el)[i] - w]

\* a mask that keeps a kinetic energy of zero
Mask_nonneg(pos) == [i \in 1..Len(pos) |-> pos[i] >= 0]

\* mask = pos > 0
Mask(pos) == [i \in 1..Len(pos) |-> pos[i] > 0]

\* the labels taken without the mask
shellOf_unmasked(el, mask) == Columns(el)

\* shell = element[1].columns[mask]
shellOf(el, mask) == Masked(Columns(el), mask, 1)

\* the loop  for e, orbital in zip(eKin, element[2]):  of the interactive
\* synthesizer, from the k-th pair on: the (cs, beta) pairs appended
RECURSIVE LookupLoop(_, _, _)
LookupLoop(eKin, shells, k) ==
    IF k > Min2(Len(eKin), Len(shells)) THEN <<>>
    ELSE (IF Len(shells[k]) > 0
          THEN LET nearestRow == shells[k][nearestIdx(shells[k], eKin[k])]
               IN  << [cs |-> nearestRow.cs0, beta |-> nearestRow.beta0] >>
          ELSE <<>>)
         \o LookupLoop(eKin, shells, k + 1)

\* the window test with both bounds included
InWindow_inclusive(x_val, hi, lo) == hi >= x_val /\ x_val >= lo

\* emax > x_val > emin
InWindow(x_val, hi, lo) == hi > x_val /\ x_val > lo

\* the loop over zip(eKin, shell, cs, betas) that builds filtered_data
RECURSIVE FilterLoop(_, _, _, _, _, _, _)
FilterLoop(eKin, shell, looked, eV, hi, lo, k) ==
    IF k > Min2(Len(eKin), Min2(Len(shell), Len(looked))) THEN <<>>
    ELSE (IF InWindow(eKin[k], hi, lo)
          THEN << [energy        |-> eKin[k],
                   shell         |-> shell[k],
                   cross_section |-> looked[k].cs,
                   beta          |-> looked[k].beta,
                   photon_energy |-> eV] >>
          ELSE <<>>)
         \o FilterLoop(eKin, shell, looked, eV, hi, lo, k + 1)

\* one iteration of  for eV in setPhoton:  the filtered_data it produces
filtered_data(el, eV, hi, lo, w) ==
    LET pos    == Pos(el, eV, w)
        mask   == Mask(pos)
        eKin   == Masked(pos, mask, 1)
        shell  == shellOf(el, mask)
        looked == LookupLoop(eKin, el.shells, 1)
    IN  FilterLoop(eKin, shell, looked, eV, hi, lo, 1)

\* the group put in front of the list
extend_front(data, group) == group \o data

\* plot_data.extend(filtered_data)
extend(data, group) == data \o group

\* synthSpectrum_interactive(element, setPhoton, emax, emin, ret): plot_data
\* after the iterations k, k+1, ... starting from the list data
RECURSIVE PhotonLoop(_, _, _, _, _, _, _)
PhotonLoop(el, photons, hi, lo, w, k, data) ==
    IF k > Len(photons) THEN data
    ELSE PhotonLoop(el, photons, hi, lo, w, k + 1,
                    extend(data, filtered_data(el, photons[k], hi, lo, w)))

synthSpectrum_interactive(el, photons, hi, lo, w) ==
    PhotonLoop(el, photons, hi, lo, w, 1, <<>>)

\* ---- synthSpectrum (matplotlib): the draw calls it makes ----

\* some orbital paired by zip(eKin, element[2]) is empty: idxmin raises
EmptyOrbitalPaired(eKin, shells) ==
    \E k \in 1..Min2(Len(eKin), Len(shells)) : Len(shells[k]) = 0

\* the loop  for e,orbital in zip(eKin,element[2]):  of synthSpectrum, which
\* has no emptiness test; evaluated only when no paired orbital is empty
RECURSIVE StaticLookupLoop(_, _, _)
StaticLookupLoop(eKin, shells, k) ==
    IF k > Min2(Len(eKin), Len(shells)) THEN <<>>
    ELSE LET nearestRow == shells[k][nearestIdx(shells[k], eKin[k])]
         IN  << [cs |-> nearestRow.cs0, beta |-> nearestRow.beta0] >>
             \o StaticLookupLoop(eKin, shells, k + 1)

\* labels_by_x[x_val]: the labels of all active sub-shells at x_val, in order
LabelsAt(eKin, shell, x_val) ==
    LET n == Min2(Len(eKin), Len(shell))
    IN  Masked(SubSeq(shell, 1, n), [j \in 1..n |-> eKin[j] = x_val], 1)

\* the loop  for x_val, label_list in labels_by_x.items():  from the k-th
\* pair of zip(eKin, shell) on; a key of the dict is the first occurrence of its value
\* and idx = list(eKin).index(x_val) is that position; cs[idx] raises
\* IndexError when cs is shorter
RECURSIVE TextLoop(_, _, _, _, _, _)
TextLoop(eKin, shell, looked, hi, lo, k) ==
    IF k > Min2(Len(eKin), Len(shell)) THEN [ev |-> <<>>, err |-> FALSE]
    ELSE IF (\E j \in 1..(k - 1) : eKin[j] = eKin[k]) \/ ~InWindow(eKin[k], hi, lo)
         THEN TextLoop(eKin, shell, looked, hi, lo, k + 1)
    ELSE IF k > Len(looked) THEN [ev |-> <<>>, err |-> TRUE]
    ELSE LET rest == TextLoop(eKin, shell, looked, hi, lo, k + 1)
         IN  [ev  |-> << [kind   |-> "text",
                          x      |-> eKin[k],
                          labels |-> LabelsAt(eKin, shell, eKin[k]),
                          cs     |-> looked[k].cs,
                          beta   |-> looked[k].beta] >> \o rest.ev,
              err |-> rest.err]

\* plt.bar(eKin, cs): x and height are broadcast against each other
BarShapesOk(n, m) == n = m \/ n = 1 \/ m = 1

BarEvent(eKin, looked) ==
    LET n   == Len(eKin)
        m   == Len(looked)
        cnt == IF n = m THEN n ELSE IF n = 1 THEN m ELSE n
    IN  [kind   |-> "bar",
         x      |-> [i \in 1..cnt |-> IF n = 1 THEN eKin[1] ELSE eKin[i]],
         height |-> [i \in 1..cnt |-> IF m = 1 THEN looked[1].cs ELSE looked[i].cs]]

\* one iteration of synthSpectrum's loop: the draw calls made and whether an
\* exception ended it
StaticIteration(el, eV, hi, lo, w) ==
    LET pos   == Pos(el, eV, w)
        mask  == Mask(pos)
        eKin  == Masked(pos, mask, 1)
        shell == shellOf(el, mask)
    IN  IF EmptyOrbitalPaired(eKin, el.shells) THEN [ev |-> <<>>, err |-> TRUE]
        ELSE LET looked == StaticLookupLoop(eKin, el.shells, 1)
                 texts  == TextLoop(eKin, shell, looked, hi, lo, 1)
             IN  IF texts.err THEN texts
                 ELSE IF ~BarShapesOk(Len(eKin), Len(looked))
                      THEN [ev |-> texts.ev, err |-> TRUE]
                 ELSE [ev |-> Append(texts.ev, BarEvent(eKin, looked)), err |-> FALSE]

\* synthSpectrum(element, setPhoton, emax, emin, ret) from iteration k on
RECURSIVE synthSpectrumLoop(_, _, _, _, _, _)
synthSpectrumLoop(el, photons, hi, lo, w, k) ==
    IF k > Len(photons) THEN [ev |-> <<>>, err |-> FALSE]
    ELSE LET it == StaticIteration(el, photons[k], hi, lo, w)
         IN  IF it.err THEN it
             ELSE LET rest == synthSpectrumLoop(el, photons, hi, lo, w, k + 1)
                  IN  [ev |-> it.ev \o rest.ev, err |-> rest.err]

synthSpectrum(el, photons, hi, lo, w) == synthSpectrumLoop(el, photons, hi, lo, w, 1)

(***************************************************************************)
(* Inputs of the synthesizer                                               *)
(***************************************************************************)
\* Neon's labels
L_1s    == <<"1", "s">>
L_2s    == <<"2", "s">>
L_2p1_2 == <<"2", "p", "1", "/", "2">>
L_2p3_2 == <<"2", "p", "3", "/", "2">>
neonLabels == <<L_1s, L_2s, L_2p1_2, L_2p3_2>>

\* Neon's 1s, 2s and 2p3/2 binding energies
BindSet == {8702, 485, 216}

\* a table read from a file: unsorted, with two samples equally near 451.5 eV
TabA ==
    << Row(4500,  FDiv(1, 4), FDiv(1, 8), Zero, FDiv(1, 2), Zero, Zero),
       Row(4530,  FDiv(3, 4), FDiv(1, 8), Zero, FDiv(3, 4), Zero, Zero),
       Row(14000, FDiv(1, 8), FDiv(1, 8), Zero, FDiv(2, 1), Zero, Zero) >>

TableSet == { <<>>, TabA, DummyData }

\* element records with up to MaxShells sub-shells
SynthElements ==
    UNION { { [name    |-> "Test",
               binding |-> [i \in 1..n |-> [label |-> neonLabels[i], energy |-> en[i]]],
               shells  |-> sh] :
              en \in [1..n -> BindSet], sh \in [1..n -> TableSet] } :
            n \in 1..Min2(MaxShells, Len(neonLabels)) }

\* 500 eV and Al K-alpha, 1486.6 eV
PhotonSet == {5000, 14866}
PhotonSeqs == UNION { [1..n -> PhotonSet] : n \in 0..MaxPhotons }

\* <<emin, emax>>: the defaults, the window of the Neon scenario, a window
\* reaching below zero, and a window whose bounds are kinetic energies
Windows == { <<0, 10000>>, <<0, 8000>>, <<0 - 10, 15000>>, <<4515, 14650>> }

\* work functions: none, and one that puts the 2s electron at rest at 500 eV
RetSet == {0, 4515}

(***************************************************************************)
(* The synthesizer program: one call of either function                    *)
(***************************************************************************)
InitSynth ==
    /\ prog = "synth" /\ pc = "ready"
    /\ element \in SynthElements
    /\ setPhoton \in PhotonSeqs
    /\ \E win \in Windows : emin = win[1] /\ emax = win[2]
    /\ ret \in RetSet
    /\ plot_data = <<>> /\ bars = <<>> /\ raised = "none" /\ first_call = <<>>
    /\ ScaleIdle /\ BuildIdle /\ LookupIdle /\ AugerIdle

CallInteractive ==
    /\ prog = "synth" /\ pc = "ready"
    /\ plot_data' = synthSpectrum_interactive(element, setPhoton, emax, emin, ret)
    /\ pc' = "interactive_done"
    /\ UNCHANGED <<prog, element, setPhoton, emax, emin, ret, bars, raised,
                   first_call, scaleVars, buildVars, lookupVars, augerVars>>

CallStatic ==
    /\ prog = "synth" /\ pc = "ready"
    /\ LET res == synthSpectrum(element, setPhoton, emax, emin, ret)
       IN  /\ bars' = res.ev
           /\ raised' = IF res.err THEN "error" ELSE "none"
    /\ pc' = "static_done"
    /\ UNCHANGED <<prog, element, setPhoton, emax, emin, ret, plot_data,
                   first_call, scaleVars, buildVars, lookupVars, augerVars>>

NextSynth == CallInteractive \/ CallStatic

SpecSynth == InitSynth /\ [][NextSynth]_vars

(***************************************************************************)
(* The shell data repository: elements.py, generate_elements_data.py       *)
(***************************************************************************)
\* file names of the database directory
ne1s_txt == <<"n", "e", "1", "s", ".", "t", "x", "t">>
ne2s_txt == <<"n", "e", "2", "s", ".", "t", "x", "t">>
ne2p_txt == <<"n", "e", "2", "p", ".", "t", "x", "t">>
ar2s_txt == <<"a", "r", "2", "s", ".", "t", "x", "t">>
ar2p_txt == <<"a", "r", "2", "p", ".", "t", "x", "t">>
ar3s_txt == <<"a", "r", "3", "s", ".", "t", "x", "t">>
ar3p_txt == <<"a", "r", "3", "p", ".", "t", "x", "t">>
kr3s_txt == <<"k", "r", "3", "s", ".", "t", "x", "t">>
kr3p_txt == <<"k", "r", "3", "p", ".", "t", "x", "t">>
kr3d_txt == <<"k", "r", "3", "d", ".", "t", "x", "t">>
kr4s_txt == <<"k", "r", "4", "s", ".", "t", "x", "t">>
kr4p_txt == <<"k", "r", "4", "p", ".", "t", "x", "t">>
xe3s_txt == <<"x", "e", "3", "s", ".", "t", "x", "t">>
xe3p_txt == <<"x", "e", "3", "p", ".", "t", "x", "t">>
xe3d_txt == <<"x", "e", "3", "d", ".", "t", "x", "t">>
xe4s_txt == <<"x", "e", "4", "s", ".", "t", "x", "t">>
xe4p_txt == <<"x", "e", "4", "p", ".", "t", "x", "t">>
xe4d_txt == <<"x", "e", "4", "d", ".", "t", "x", "t">>
xe5s_txt == <<"x", "e", "5", "s", ".", "t", "x", "t">>
xe5p_txt == <<"x", "e", "5", "p", ".", "t", "x", "t">>

AllFiles == <<ne1s_txt, ne2s_txt, ne2p_txt, ar2s_txt, ar2p_txt,
              ar3s_txt, ar3p_txt, kr3s_txt, kr3p_txt, kr3d_txt,
              kr4s_txt, kr4p_txt, xe3s_txt, xe3p_txt, xe3d_txt,
              xe4s_txt, xe4p_txt, xe4d_txt, xe5s_txt, xe5p_txt>>

FileSet == { AllFiles[i] : i \in 1..Len(AllFiles) }

\* what the file AllFiles[i] holds when it exists: two samples that differ
\* from file to file
FileContent(i) ==
    LET m == Pow2(MantBits - 1) + (i % Pow2(MantBits - 1))
    IN  << Row(1000 + 100 * i, [m |-> m, e |-> 0 - MantBits],
                               [m |-> Mirror(m), e |-> 0 - MantBits],
                               [m |-> m, e |-> 1 - MantBits],
                               FDiv(3, 2), FDiv(1, 2), FDiv(1, 4)),
           Row(9000 - 100 * i, [m |-> Mirror(m), e |-> 0 - MantBits],
                               [m |-> m, e |-> 2 - MantBits],
                               Zero,
                               FDiv(5, 4), Zero, FDiv(1, 2)) >>

\* the database directory in which exactly the files of present exist
Database(present) ==
    [f \in FileSet |->
        IF f \in present
        THEN [exists   |-> TRUE,
              readable |-> TRUE,
              content  |-> FileContent(CHOOSE i \in 1..Len(AllFiles) : AllFiles[i] = f)]
        ELSE [exists |-> FALSE, readable |-> FALSE, content |-> <<>>]]

\* pd.read_csv(filepath, ...) raises: the path exists and cannot be read (no
\* read permission, a directory)
read_csv_raises(db, name) == db[name].exists /\ ~db[name].readable

\* safe_read_csv(filename): the DataFrame returned
safe_read_csv(db, name) ==
    IF db[name].exists THEN db[name].content ELSE DummyData

\* the "not found" warnings printed when the files of reads are read in order
Warnings(db, reads) ==
    LET missing == SelectSeq(reads, LAMBDA f : ~db[f].exists)
    IN  [i \in 1..Len(missing) |-> [kind |-> "dummy", text |-> missing[i]]]

\* the labels of Argon, Krypton and Xenon
L_L1_2s == <<"L", "1", " ", "2", "s">>
L_L2_2p1_2 == <<"L", "2", " ", "2", "p", "1", "/", "2">>
L_L3_2p3_2 == <<"L", "3", " ", "2", "p", "3", "/", "2">>
L_M1_3s == <<"M", "1", " ", "3", "s">>
L_M2_3p1_2 == <<"M", "2", " ", "3", "p", "1", "/", "2">>
L_M3_3p3_2 == <<"M", "3", " ", "3", "p", "3", "/", "2">>
L_3s == <<"3", "s">>
L_3p1_2 == <<"3", "p", "1", "/", "2">>
L_3p3_2 == <<"3", "p", "3", "/", "2">>
L_3d3_2 == <<"3", "d", "3", "/", "2">>
L_3d5_2 == <<"3", "d", "5", "/", "2">>
L_4s == <<"4", "s">>
L_4p1_2 == <<"4", "p", "1", "/", "2">>
L_4p3_2 == <<"4", "p", "3", "/", "2">>
L_M4_3d3_2 == <<"M", "4", " ", "3", "d", "3", "/", "2">>
L_M5_3d5_2 == <<"M", "5", " ", "3", "d", "5", "/", "2">>
L_N1_4s == <<"N", "1", " ", "4", "s">>
L_N2_4p1_2 == <<"N", "2", " ", "4", "p", "1", "/", "2">>
L_N3_4p3_2 == <<"N", "3", " ", "4", "p", "3", "/", "2">>
L_N4_4d3_2 == <<"N", "4", " ", "4", "d", "3", "/", "2">>
L_N5_4d5_2 == <<"N", "5", " ", "4", "d", "5", "/", "2">>
L_O1_5s == <<"O", "1", " ", "5", "s">>
L_O2_5p1_2 == <<"O", "2", " ", "5", "p", "1", "/", "2">>
L_O3_5p3_2 == <<"O", "3", " ", "5", "p", "3", "/", "2">>

\* ---- elements.py ----
neonBinding ==
    << [label |-> L_1s, energy |-> 8702],
       [label |-> L_2s, energy |-> 485],
       [label |-> L_2p1_2, energy |-> 217],
       [label |-> L_2p3_2, energy |-> 216] >>

\* neonShell = [ne1s, ne2s, ne2p_1half, ne2p_3half]
neonShell(db) ==
    LET ne1s == safe_read_csv(db, ne1s_txt)
        ne2s == safe_read_csv(db, ne2s_txt)
        ne2p == safe_read_csv(db, ne2p_txt)
        ne2p_1half == Scaled(ne2p, FDiv(1, 3))
        ne2p_3half == Scaled(ne2p, FDiv(2, 3))
    IN  << ne1s, ne2s, ne2p_1half, ne2p_3half >>

neon(db) == [name |-> "Neon", binding |-> neonBinding, shells |-> neonShell(db)]

argonBinding ==
    << [label |-> L_L1_2s, energy |-> 3263],
       [label |-> L_L2_2p1_2, energy |-> 2506],
       [label |-> L_L3_2p3_2, energy |-> 2484],
       [label |-> L_M1_3s, energy |-> 293],
       [label |-> L_M2_3p1_2, energy |-> 159],
       [label |-> L_M3_3p3_2, energy |-> 157] >>

\* argonShell with the two 2p children in the other order
argonShell_swapped(db) ==
    LET ar2s == safe_read_csv(db, ar2s_txt)
        ar2p == safe_read_csv(db, ar2p_txt)
        ar3s == safe_read_csv(db, ar3s_txt)
        ar3p == safe_read_csv(db, ar3p_txt)
        ar2p_1half == Scaled(ar2p, FDiv(1, 3))
        ar2p_3half == Scaled(ar2p, FDiv(2, 3))
        ar3p_1half == Scaled(ar3p, FDiv(1, 3))
        ar3p_3half == Scaled(ar3p, FDiv(2, 3))
    IN  << ar2s, ar2p_3half, ar2p_1half, ar3s, ar3p_1half, ar3p_3half >>

\* argonShell = [ar2s, ar2p_1half, ar2p_3half, ar3s, ar3p_1half, ar3p_3half]
argonShell(db) ==
    LET ar2s == safe_read_csv(db, ar2s_txt)
        ar2p == safe_read_csv(db, ar2p_txt)
        ar3s == safe_read_csv(db, ar3s_txt)
        ar3p == safe_read_csv(db, ar3p_txt)
        ar2p_1half == Scaled(ar2p, FDiv(1, 3))
        ar2p_3half == Scaled(ar2p, FDiv(2, 3))
        ar3p_1half == Scaled(ar3p, FDiv(1, 3))
        ar3p_3half == Scaled(ar3p, FDiv(2, 3))
    IN  << ar2s, ar2p_1half, ar2p_3half, ar3s, ar3p_1half, ar3p_3half >>

argon(db) == [name |-> "Argon", binding |-> argonBinding, shells |-> argonShell(db)]

kryptonBinding ==
    << [label |-> L_3s, energy |-> 2928],
       [label |-> L_3p1_2, energy |-> 2222],
       [label |-> L_3p3_2, energy |-> 2144],
       [label |-> L_3d3_2, energy |-> 950],
       [label |-> L_3d5_2, energy |-> 938],
       [label |-> L_4s, energy |-> 275],
       [label |-> L_4p1_2, energy |-> 141],
       [label |-> L_4p3_2, energy |-> 141] >>

\* kryptonShell without the 3d5/2 table
kryptonShell_short(db) ==
    LET kr3s == safe_read_csv(db, kr3s_txt)
        kr3p == safe_read_csv(db, kr3p_txt)
        kr3d == safe_read_csv(db, kr3d_txt)
        kr4s == safe_read_csv(db, kr4s_txt)
        kr4p == safe_read_csv(db, kr4p_txt)
        kr3p_1half == Scaled(kr3p, FDiv(1, 3))
        kr3p_3half == Scaled(kr3p, FDiv(2, 3))
        kr3d_3half == Scaled(kr3d, FDiv(2, 5))
        kr3d_5half == Scaled(kr3d, FDiv(3, 5))
        kr4p_1half == Scaled(kr4p, FDiv(1, 3))
        kr4p_3half == Scaled(kr4p, FDiv(2, 3))
    IN  << kr3s, kr3p_1half, kr3p_3half, kr3d_3half, kr4s, kr4p_1half, kr4p_3half >>

\* kryptonShell = [kr3s, kr3p_1half, ..., kr4p_3half]
kryptonShell(db) ==
    LET kr3s == safe_read_csv(db, kr3s_txt)
        kr3p == safe_read_csv(db, kr3p_txt)
        kr3d == safe_read_csv(db, kr3d_txt)
        kr4s == safe_read_csv(db, kr4s_txt)
        kr4p == safe_read_csv(db, kr4p_txt)
        kr3p_1half == Scaled(kr3p, FDiv(1, 3))
        kr3p_3half == Scaled(kr3p, FDiv(2, 3))
        kr3d_3half == Scaled(kr3d, FDiv(2, 5))
        kr3d_5half == Scaled(kr3d, FDiv(3, 5))
        kr4p_1half == Scaled(kr4p, FDiv(1, 3))
        kr4p_3half == Scaled(kr4p, FDiv(2, 3))
    IN  << kr3s, kr3p_1half, kr3p_3half, kr3d_3half, kr3d_5half, kr4s, kr4p_1half, kr4p_3half >>

krypton(db) == [name |-> "Krypton", binding |-> kryptonBinding, shells |-> kryptonShell(db)]

\* the Auger reference files build_element_data reads
neAuger_txt == <<"n", "e", "A", "u", "g", "e", "r", ".", "t", "x", "t">>
arAuger_txt == <<"a", "r", "A", "u", "g", "e", "r", ".", "t", "x", "t">>
krAuger_txt == <<"k", "r", "A", "u", "g", "e", "r", ".", "t", "x", "t">>
xeAuger_txt == <<"x", "e", "A", "u", "g", "e", "r", ".", "t", "x", "t">>
AugerFileSet == { neAuger_txt, arAuger_txt, krAuger_txt, xeAuger_txt }

(***************************************************************************)
(* Text handling of generate_elements_data.read_auger_file.  A string is   *)
(* a sequence of one-character strings.                                    *)
(***************************************************************************)
Whitespace == {" ", "\t", "\n"}
Quote == {"'"}

RECURSIVE lstrip(_, _)
lstrip(s, chars) ==
    IF s # <<>> /\ s[1] \in chars THEN lstrip(SubSeq(s, 2, Len(s)), chars) ELSE s

RECURSIVE rstrip(_, _)
rstrip(s, chars) ==
    IF s # <<>> /\ s[Len(s)] \in chars THEN rstrip(SubSeq(s, 1, Len(s) - 1), chars)
    ELSE s

\* str.strip(chars)
strip(s, chars) == rstrip(lstrip(s, chars), chars)

\* str.split(sep) for a one-character separator
RECURSIVE split(_, _)
split(s, sep) ==
    IF \A i \in 1..Len(s) : s[i] # sep THEN <<s>>
    ELSE LET i == CHOOSE j \in 1..Len(s) :
                      s[j] = sep /\ \A h \in 1..(j - 1) : s[h] # sep
         IN  <<SubSeq(s, 1, i - 1)>> \o split(SubSeq(s, i + 1, Len(s)), sep)

\* p.strip().strip("'")
Unquote(p) == strip(strip(p, Whitespace), Quote)

DigitValue(c) ==
    CASE c = "0" -> 0 [] c = "1" -> 1 [] c = "2" -> 2 [] c = "3" -> 3
      [] c = "4" -> 4 [] c = "5" -> 5 [] c = "6" -> 6 [] c = "7" -> 7
      [] c = "8" -> 8 [] c = "9" -> 9
Digits == {"0", "1", "2", "3", "4", "5", "6", "7", "8", "9"}

\* the numeral without surrounding whitespace and without its sign
Unsigned(s) ==
    LET t == strip(s, Whitespace)
    IN  IF t # <<>> /\ t[1] \in {"+", "-"} THEN SubSeq(t, 2, Len(t)) ELSE t

\* float(s) returns: s is a decimal numeral, [sign] digits [. digits] with at
\* least one digit (the records of the reference files use no exponent)
float_parses(s) ==
    LET u == Unsigned(s)
    IN  /\ \A i \in 1..Len(u) : u[i] \in Digits \cup {"."}
        /\ Cardinality({i \in 1..Len(u) : u[i] = "."}) <= 1
        /\ \E i \in 1..Len(u) : u[i] \in Digits

RECURSIVE DigitsValue(_)
DigitsValue(ds) ==
    IF ds = <<>> THEN 0
    ELSE 10 * DigitsValue(SubSeq(ds, 1, Len(ds) - 1)) + DigitValue(ds[Len(ds)])

\* float(s) in tenths, for a numeral with at most one digit after the point
float(s) ==
    LET t == strip(s, Whitespace)
        u == Unsigned(s)
        whole == SelectSeq(u, LAMBDA c : c # ".")
        point == IF \E i \in 1..Len(u) : u[i] = "."
                 THEN CHOOSE i \in 1..Len(u) : u[i] = "." ELSE Len(u) + 1
        mag == IF point >= Len(u)
               THEN 10 * DigitsValue(whole)
               ELSE DigitsValue(SelectSeq(SubSeq(u, 1, point + 1), LAMBDA c : c # "."))
    IN  IF t # <<>> /\ t[1] = "-" THEN 0 - mag ELSE mag

(***************************************************************************)
(* Lines of an Auger reference file                                        *)
(*   'peak_name', kinetic_energy, 'channel', relative_intensity, 'origin'  *)
(***************************************************************************)
\* a record whose origin is a label of Neon:  'KLL', 804, 'a', 1, '1s'
Line_1s ==
    <<" ", "'", "K", "L", "L", "'", ",", " ", "8", "0", "4", ",", " ", "'", "a", "'", ",", " ", "1", ",", " ", "'", "1", "s", "'">>
\* an origin contained in two labels of Neon and of Argon:  'LMM', 20.5, ' b', .5, '2p'
Line_2p ==
    <<"'", "L", "M", "M", "'", ",", " ", "2", "0", ".", "5", ",", " ", "'", " ", "b", "'", ",", " ", ".", "5", ",", " ", "'", "2", "p", "'">>
\* an origin contained in a longer label of Argon:  'LVV',203,'c',2,'2p3/2'
Line_2p3_2 ==
    <<"'", "L", "V", "V", "'", ",", "2", "0", "3", ",", "'", "c", "'", ",", "2", ",", "'", "2", "p", "3", "/", "2", "'">>
\* an origin contained in no label:  'NOO', 9, 'd', 3, '4f'
Line_4f ==
    <<"'", "N", "O", "O", "'", ",", " ", "9", ",", " ", "'", "d", "'", ",", " ", "3", ",", " ", "'", "4", "f", "'">>
\* a record with an empty origin:  'M', 7, 'e', 4, ''
Line_no_origin ==
    <<"'", "M", "'", ",", " ", "7", ",", " ", "'", "e", "'", ",", " ", "4", ",", " ", "'", "'">>
\* kinetic energy not numeric:  'LMM', x, 'b', 5, '2s'
Line_bad_energy ==
    <<"'", "L", "M", "M", "'", ",", " ", "x", ",", " ", "'", "b", "'", ",", " ", "5", ",", " ", "'", "2", "s", "'">>
\* relative intensity missing:  'LMM', 6, 'b', , '2s'
Line_bad_intensity ==
    <<"'", "L", "M", "M", "'", ",", " ", "6", ",", " ", "'", "b", "'", ",", " ", ",", " ", "'", "2", "s", "'">>
\* fewer than five fields:  'X', 1
Line_short ==
    <<"'", "X", "'", ",", " ", "1">>
\* a blank line:  (spaces)
Line_blank ==
    <<" ", " ">>

AugerLines ==
    { Line_1s, Line_2p, Line_2p3_2, Line_4f, Line_no_origin, Line_bad_energy,
      Line_bad_intensity, Line_short, Line_blank }

(***************************************************************************)
(* generate_elements_data.read_auger_file                                  *)
(***************************************************************************)
\* parts = [p.strip().strip("'") for p in line.split(',')]
Parts(line) ==
    LET raw == split(line, ",") IN [i \in 1..Len(raw) |-> Unquote(raw[i])]

\* the peak dictionary made of the parts of a line
PeakOf(parts) ==
    [peak_name          |-> parts[1],
     kinetic_energy     |-> float(parts[2]),
     channel            |-> Unquote(parts[3]),
     relative_intensity |-> float(parts[4]),
     origin             |-> Unquote(parts[5])]

\* float(parts[1]) or float(parts[3]) raises ValueError
ValueError(parts) == ~float_parses(parts[2]) \/ ~float_parses(parts[4])

ParseWarning(line) == [kind |-> "parse", text |-> line]

\* a reader that stops at the first record it cannot parse
RECURSIVE ReadLoop_stop(_, _, _, _)
ReadLoop_stop(lines, k, peaks, out) ==
    IF k > Len(lines) THEN [auger_peaks |-> peaks, out |-> out]
    ELSE LET line == strip(lines[k], Whitespace)
             parts == Parts(line)
         IN  IF line = <<>> \/ Len(parts) < 5
             THEN ReadLoop_stop(lines, k + 1, peaks, out)
             ELSE IF ValueError(parts)
                  THEN [auger_peaks |-> peaks, out |-> Append(out, ParseWarning(line))]
                  ELSE ReadLoop_stop(lines, k + 1, Append(peaks, PeakOf(parts)), out)

\* for line in f: ..., from line k on, given the peaks appended and the
\* warnings printed so far
RECURSIVE ReadLoop(_, _, _, _)
ReadLoop(lines, k, peaks, out) ==
    IF k > Len(lines) THEN [auger_peaks |-> peaks, out |-> out]
    ELSE LET line == strip(lines[k], Whitespace)
             parts == Parts(line)
         IN  IF line = <<>> \/ Len(parts) < 5
             THEN ReadLoop(lines, k + 1, peaks, out)
             ELSE IF ValueError(parts)
                  THEN ReadLoop(lines, k + 1, peaks, Append(out, ParseWarning(line)))
                  ELSE ReadLoop(lines, k + 1, Append(peaks, PeakOf(parts)), out)

\* read_auger_file(filename): the list returned and the lines printed
read_auger_file(file) ==
    IF ~file.exists
    THEN [auger_peaks |-> <<>>, out |-> <<[kind |-> "note", text |-> file.name]>>]
    ELSE ReadLoop(file.lines, 1, <<>>, <<>>)

(***************************************************************************)
(* generate_elements_data.process_auger_data                               *)
(***************************************************************************)
\* a in b, for strings
IsSubstring(a, b) == \E i \in 0..(Len(b) - Len(a)) : SubSeq(b, i + 1, i + Len(a)) = a

\* origin in key or key == origin
KeyMatches(origin, key) == IsSubstring(origin, key) \/ key = origin

\* a search that keeps the last matching key
RECURSIVE FindKey_last(_, _, _)
FindKey_last(origin, binding, k) ==
    IF k > Len(binding) THEN 0
    ELSE LET later == FindKey_last(origin, binding, k + 1)
         IN  IF later # 0 THEN later
             ELSE IF KeyMatches(origin, binding[k].label) THEN k ELSE 0

\* for key in binding_energies: ... break, from key k on: the position of
\* the key found, 0 for None
RECURSIVE FindKey(_, _, _)
FindKey(origin, binding, k) ==
    IF k > Len(binding) THEN 0
    ELSE IF KeyMatches(origin, binding[k].label) THEN k
         ELSE FindKey(origin, binding, k + 1)

OriginWarning(origin) == [kind |-> "origin", text |-> origin]

\* for peak in auger_peaks: ..., from peak k on
RECURSIVE ProcessLoop(_, _, _, _, _)
ProcessLoop(peaks, binding, k, acc, out) ==
    IF k > Len(peaks) THEN [processed |-> acc, out |-> out]
    ELSE LET peak == peaks[k]
             origin == peak.origin
             found == FindKey(origin, binding, 1)
         IN  IF found = 0
             THEN ProcessLoop(peaks, binding, k + 1, acc, Append(out, OriginWarning(origin)))
             ELSE ProcessLoop(peaks, binding, k + 1,
                      Append(acc, [peak_name          |-> peak.peak_name,
                                   kinetic_energy     |-> peak.kinetic_energy,
                                   channel            |-> peak.channel,
                                   intensity_factor   |-> peak.relative_intensity,
                                   origin             |-> origin,
                                   origin_binding_key |-> binding[found].label]),
                      out)

\* process_auger_data(auger_peaks, binding_energies)
process_auger_data(peaks, binding) ==
    IF peaks = <<>> THEN [processed |-> <<>>, out |-> <<>>]
    ELSE ProcessLoop(peaks, binding, 1, <<>>, <<>>)

\* the record read_auger_file works on, for the file name of directory db
AugerFile(db, name) ==
    [name |-> name, exists |-> db[name].exists, lines |-> db[name].lines]

\* raw = read_auger_file(name); auger = process_auger_data(raw, binding):
\* the processed peaks and the lines printed by both calls
load_auger(db, name, binding) ==
    LET raw == read_auger_file(AugerFile(db, name))
        res == process_auger_data(raw.auger_peaks, binding)
    IN  [auger_peaks |-> res.processed, out |-> raw.out \o res.out]

\* ---- generate_elements_data.py ----
\* a column of a DataFrame as a list
df_to_shell_data(df) ==
    [photon_energy |-> [i \in 1..Len(df) |-> df[i].PhotonEnergy],
     cs0   |-> [i \in 1..Len(df) |-> df[i].cs0],
     cs1   |-> [i \in 1..Len(df) |-> df[i].cs1],
     cs2   |-> [i \in 1..Len(df) |-> df[i].cs2],
     beta0 |-> [i \in 1..Len(df) |-> df[i].beta0],
     beta1 |-> [i \in 1..Len(df) |-> df[i].beta1],
     beta2 |-> [i \in 1..Len(df) |-> df[i].beta2]]

\* elements[key] = {"name", "symbol", "binding_energies", "shell_data",
\*                  "auger_peaks"}
ElementEntry(nm, sym, bnd, shs, aug) ==
    [name |-> nm, symbol |-> sym, binding_energies |-> bnd,
     shell_data |-> [i \in 1..Len(shs) |-> df_to_shell_data(shs[i])],
     auger_peaks |-> aug]

neon_binding ==
    << [label |-> L_1s, energy |-> 8702],
       [label |-> L_2s, energy |-> 485],
       [label |-> L_2p1_2, energy |-> 217],
       [label |-> L_2p3_2, energy |-> 216] >>

\* neon_shells = [ne1s, ..., ne2p_3half]
neon_shells(db) ==
    LET ne1s == safe_read_csv(db, ne1s_txt)
        ne2s == safe_read_csv(db, ne2s_txt)
        ne2p == safe_read_csv(db, ne2p_txt)
        ne2p_1half == Scaled(ne2p, FDiv(1, 3))
        ne2p_3half == Scaled(ne2p, FDiv(2, 3))
    IN  << ne1s, ne2s, ne2p_1half, ne2p_3half >>

argon_binding ==
    << [label |-> L_L1_2s, energy |-> 3263],
       [label |-> L_L2_2p1_2, energy |-> 2506],
       [label |-> L_L3_2p3_2, energy |-> 2484],
       [label |-> L_M1_3s, energy |-> 293],
       [label |-> L_M2_3p1_2, energy |-> 159],
       [label |-> L_M3_3p3_2, energy |-> 157] >>

\* argon_shells = [ar2s, ..., ar3p_3half]
argon_shells(db) ==
    LET ar2s == safe_read_csv(db, ar2s_txt)
        ar2p == safe_read_csv(db, ar2p_txt)
        ar3s == safe_read_csv(db, ar3s_txt)
        ar3p == safe_read_csv(db, ar3p_txt)
        ar2p_1half == Scaled(ar2p, FDiv(1, 3))
        ar2p_3half == Scaled(ar2p, FDiv(2, 3))
        ar3p_1half == Scaled(ar3p, FDiv(1, 3))
        ar3p_3half == Scaled(ar3p, FDiv(2, 3))
    IN  << ar2s, ar2p_1half, ar2p_3half, ar3s, ar3p_1half, ar3p_3half >>

krypton_binding ==
    << [label |-> L_3s, energy |-> 2928],
       [label |-> L_3p1_2, energy |-> 2222],
       [label |-> L_3p3_2, energy |-> 2144],
       [label |-> L_3d3_2, energy |-> 950],
       [label |-> L_3d5_2, energy |-> 938],
       [label |-> L_4s, energy |-> 275],
       [label |-> L_4p1_2, energy |-> 141],
       [label |-> L_4p3_2, energy |-> 141] >>

\* krypton_shells = [kr3s, ..., kr4p_3half]
krypton_shells(db) ==
    LET kr3s == safe_read_csv(db, kr3s_txt)
        kr3p == safe_read_csv(db, kr3p_txt)
        kr3d == safe_read_csv(db, kr3d_txt)
        kr4s == safe_read_csv(db, kr4s_txt)
        kr4p == safe_read_csv(db, kr4p_txt)
        kr3p_1half == Scaled(kr3p, FDiv(1, 3))
        kr3p_3half == Scaled(kr3p, FDiv(2, 3))
        kr3d_3half == Scaled(kr3d, FDiv(2, 5))
        kr3d_5half == Scaled(kr3d, FDiv(3, 5))
        kr4p_1half == Scaled(kr4p, FDiv(1, 3))
        kr4p_3half == Scaled(kr4p, FDiv(2, 3))
    IN  << kr3s, kr3p_1half, kr3p_3half, kr3d_3half, kr3d_5half, kr4s, kr4p_1half, kr4p_3half >>

xenon_binding ==
    << [label |-> L_M1_3s, energy |-> 11487],
       [label |-> L_M2_3p1_2, energy |-> 10021],
       [label |-> L_M3_3p3_2, energy |-> 9406],
       [label |-> L_M4_3d3_2, energy |-> 6890],
       [label |-> L_M5_3d5_2, energy |-> 6764],
       [label |-> L_N1_4s, energy |-> 2132],
       [label |-> L_N2_4p1_2, energy |-> 1467],
       [label |-> L_N3_4p3_2, energy |-> 1455],
       [label |-> L_N4_4d3_2, energy |-> 695],
       [label |-> L_N5_4d5_2, energy |-> 675],
       [label |-> L_O1_5s, energy |-> 233],
       [label |-> L_O2_5p1_2, energy |-> 134],
       [label |-> L_O3_5p3_2, energy |-> 121] >>

\* xenon_shells = [xe3s, ..., xe5p_3half]
xenon_shells(db) ==
    LET xe3s == safe_read_csv(db, xe3s_txt)
        xe3p == safe_read_csv(db, xe3p_txt)
        xe3d == safe_read_csv(db, xe3d_txt)
        xe4s == safe_read_csv(db, xe4s_txt)
        xe4p == safe_read_csv(db, xe4p_txt)
        xe4d == safe_read_csv(db, xe4d_txt)
        xe5s == safe_read_csv(db, xe5s_txt)
        xe5p == safe_read_csv(db, xe5p_txt)
        xe3p_1half == Scaled(xe3p, FDiv(1, 3))
        xe3p_3half == Scaled(xe3p, FDiv(2, 3))
        xe3d_3half == Scaled(xe3d, FDiv(2, 5))
        xe3d_5half == Scaled(xe3d, FDiv(3, 5))
        xe4p_1half == Scaled(xe4p, FDiv(1, 3))
        xe4p_3half == Scaled(xe4p, FDiv(2, 3))
        xe4d_3half == Scaled(xe4d, FDiv(2, 5))
        xe4d_5half == Scaled(xe4d, FDiv(3, 5))
        xe5p_1half == Scaled(xe5p, FDiv(1, 3))
        xe5p_3half == Scaled(xe5p, FDiv(2, 3))
    IN  << xe3s, xe3p_1half, xe3p_3half, xe3d_3half, xe3d_5half, xe4s, xe4p_1half, xe4p_3half, xe4d_3half, xe4d_5half, xe5s, xe5p_1half, xe5p_3half >>

neReads == << ne1s_txt, ne2s_txt, ne2p_txt >>
arReads == << ar2s_txt, ar2p_txt, ar3s_txt, ar3p_txt >>
krReads == << kr3s_txt, kr3p_txt, kr3d_txt, kr4s_txt, kr4p_txt >>
xeReads == << xe3s_txt, xe3p_txt, xe3d_txt, xe4s_txt, xe4p_txt, xe4d_txt, xe5s_txt, xe5p_txt >>


\* the database directories tried: at most MaxPresent files exist, or at
\* most MaxPresent files are missing
RECURSIVE SubsetsUpTo(_)
SubsetsUpTo(k) ==
    IF k = 0 THEN { {} }
    ELSE LET prev == SubsetsUpTo(k - 1)
         IN  prev \cup { P \cup {f} : P \in prev, f \in FileSet }

Databases ==
    { Database(P) : P \in SubsetsUpTo(MaxPresent) } \cup
    { Database(FileSet \ P) : P \in SubsetsUpTo(MaxPresent) }

\* import of elements.py: the module body builds neon, argon and krypton;
\* generate_elements_data.build_element_data builds the four entries
\* the Auger files of the directory: all missing, or all holding the same
\* three records
AugerText == <<Line_2p, Line_bad_energy, Line_4f>>
AugerDirs ==
    { [f \in AugerFileSet |-> [exists |-> FALSE, readable |-> FALSE, lines |-> <<>>]],
      [f \in AugerFileSet |-> [exists |-> TRUE, readable |-> TRUE, lines |-> AugerText]] }

InitBuild ==
    /\ prog \in {"elements", "generate"} /\ pc = "neon"
    /\ \E db \in Databases : \E aug \in AugerDirs :
          /\ fs = db @@ aug
          /\ prog = "elements" => \A f \in AugerFileSet : ~aug[f].exists
    /\ stdout = <<>> /\ built = <<>> /\ elements_data = <<>> /\ filename = <<>>
    /\ ScaleIdle /\ SynthIdle /\ LookupIdle /\ AugerIdle

\* elements.py, #Neon
LoadNeon ==
    /\ prog = "elements" /\ pc = "neon"
    /\ built' = Append(built, neon(fs))
    /\ stdout' = stdout \o Warnings(fs, neReads)
    /\ pc' = "argon"
    /\ UNCHANGED <<prog, fs, elements_data, filename, scaleVars, synthVars, lookupVars,
                   augerVars>>

\* elements.py, #Argon
LoadArgon ==
    /\ prog = "elements" /\ pc = "argon"
    /\ built' = Append(built, argon(fs))
    /\ stdout' = stdout \o Warnings(fs, arReads)
    /\ pc' = "krypton"
    /\ UNCHANGED <<prog, fs, elements_data, filename, scaleVars, synthVars, lookupVars,
                   augerVars>>

\* elements.py, #Krypton
LoadKrypton ==
    /\ prog = "elements" /\ pc = "krypton"
    /\ built' = Append(built, krypton(fs))
    /\ stdout' = stdout \o Warnings(fs, krReads)
    /\ pc' = "done"
    /\ UNCHANGED <<prog, fs, elements_data, filename, scaleVars, synthVars, lookupVars,
                   augerVars>>

\* build_element_data, # Neon
BuildNeon ==
    /\ prog = "generate" /\ pc = "neon"
    /\ LET res == load_auger(fs, neAuger_txt, neon_binding)
       IN  /\ built' = Append(built, ElementEntry("Neon", "Ne", neon_binding,
                                                  neon_shells(fs), res.auger_peaks))
           /\ stdout' = stdout \o Warnings(fs, neReads) \o res.out
    /\ pc' = "argon"
    /\ UNCHANGED <<prog, fs, elements_data, filename, scaleVars, synthVars, lookupVars,
                   augerVars>>

\* build_element_data, # Argon
BuildArgon ==
    /\ prog = "generate" /\ pc = "argon"
    /\ LET res == load_auger(fs, arAuger_txt, argon_binding)
       IN  /\ built' = Append(built, ElementEntry("Argon", "Ar", argon_binding,
                                                  argon_shells(fs), res.auger_peaks))
           /\ stdout' = stdout \o Warnings(fs, arReads) \o res.out
    /\ pc' = "krypton"
    /\ UNCHANGED <<prog, fs, elements_data, filename, scaleVars, synthVars, lookupVars,
                   augerVars>>

\* build_element_data, # Krypton
BuildKrypton ==
    /\ prog = "generate" /\ pc = "krypton"
    /\ LET res == load_auger(fs, krAuger_txt, krypton_binding)
       IN  /\ built' = Append(built, ElementEntry("Krypton", "Kr", krypton_binding,
                                                  krypton_shells(fs), res.auger_peaks))
           /\ stdout' = stdout \o Warnings(fs, krReads) \o res.out
    /\ pc' = "xenon"
    /\ UNCHANGED <<prog, fs, elements_data, filename, scaleVars, synthVars, lookupVars,
                   augerVars>>

\* build_element_data, #Xenon
BuildXenon ==
    /\ prog = "generate" /\ pc = "xenon"
    /\ LET res == load_auger(fs, xeAuger_txt, xenon_binding)
       IN  /\ built' = Append(built, ElementEntry("Xenon", "Xe", xenon_binding,
                                                  xenon_shells(fs), res.auger_peaks))
           /\ stdout' = stdout \o Warnings(fs, xeReads) \o res.out
    /\ pc' = "done"
    /\ UNCHANGED <<prog, fs, elements_data, filename, scaleVars, synthVars, lookupVars,
                   augerVars>>

NextBuild ==
    \/ LoadNeon \/ LoadArgon \/ LoadKrypton
    \/ BuildNeon \/ BuildArgon \/ BuildKrypton \/ BuildXenon

SpecBuild == InitBuild /\ [][NextBuild]_vars

(***************************************************************************)
(* Claims about the repository                                             *)
(***************************************************************************)
\* binding table and table list of a constructed record of either program
BindingOf(rec) == IF prog = "elements" THEN rec.binding ELSE rec.binding_energies
TablesOf(rec)  == IF prog = "elements" THEN rec.shells ELSE rec.shell_data

ElementNames == <<"Neon", "Argon", "Krypton", "Xenon">>

\* C5: every constructed element record has exactly as many cross-section
\* tables as labels in its binding table, and the records of neon, argon,
\* krypton (and xenon in build_element_data) are all constructed
C5_PositionalLengths ==
    prog \in {"elements", "generate"} =>
        /\ \A n \in 1..Len(built) :
            /\ built[n].name = ElementNames[n]
            /\ Len(BindingOf(built[n])) > 0
            /\ Len(TablesOf(built[n])) = Len(BindingOf(built[n]))
        /\ pc = "done" => Len(built) = IF prog = "elements" THEN 3 ELSE 4

\* all records of build_element_data exist, some sources were loaded from
\* file and some fell back to the placeholder
C5_Witness ==
    /\ prog = "generate" /\ pc = "done" /\ Len(built) = 4
    /\ Len(built[4].shell_data) = 13
    /\ \E i \in 1..Len(stdout) : stdout[i].kind = "dummy"
    /\ \E f \in FileSet : fs[f].exists

\* the file-name prefix of an element
PrefixOf(nm) ==
    IF nm = "Neon" THEN <<"n", "e">>
    ELSE IF nm = "Argon" THEN <<"a", "r">>
    ELSE IF nm = "Krypton" THEN <<"k", "r">>
    ELSE <<"x", "e">>

\* the last k characters of a label
Suffix(lab, k) == SubSeq(lab, Len(lab) - k + 1, Len(lab))

IsS(lab) == lab[Len(lab)] = "s"

\* principal quantum number and orbital letter named by a label
PrincipalOf(lab) == IF IsS(lab) THEN lab[Len(lab) - 1] ELSE lab[Len(lab) - 4]
OrbitalOf(lab)   == IF IsS(lab) THEN "s" ELSE lab[Len(lab) - 3]

\* the statistical weight of the sub-shell named by a label
WeightOf(lab) ==
    IF OrbitalOf(lab) = "p" /\ Suffix(lab, 3) = <<"1", "/", "2">> THEN FDiv(1, 3)
    ELSE IF OrbitalOf(lab) = "p" /\ Suffix(lab, 3) = <<"3", "/", "2">> THEN FDiv(2, 3)
    ELSE IF OrbitalOf(lab) = "d" /\ Suffix(lab, 3) = <<"3", "/", "2">> THEN FDiv(2, 5)
    ELSE IF OrbitalOf(lab) = "d" /\ Suffix(lab, 3) = <<"5", "/", "2">> THEN FDiv(3, 5)
    ELSE One

\* the table of the parent orbital of a label, as loaded for the element nm
ParentTable(nm, lab) ==
    LET f == PrefixOf(nm) \o <<PrincipalOf(lab), OrbitalOf(lab)>> \o <<".", "t", "x", "t">>
    IN  IF fs[f].exists THEN fs[f].content ELSE DummyData

\* cols holds the columns of the table parent with cs0, cs1, cs2 multiplied
\* by w (parent itself when the label names an s sub-shell)
IsSplitOf(cols, parent, w, unscaled) ==
    /\ cols.photon_energy = [i \in 1..Len(parent) |-> parent[i].PhotonEnergy]
    /\ cols.beta0 = [i \in 1..Len(parent) |-> parent[i].beta0]
    /\ cols.beta1 = [i \in 1..Len(parent) |-> parent[i].beta1]
    /\ cols.beta2 = [i \in 1..Len(parent) |-> parent[i].beta2]
    /\ cols.cs0 = [i \in 1..Len(parent) |->
                     IF unscaled THEN parent[i].cs0 ELSE FMul(parent[i].cs0, w)]
    /\ cols.cs1 = [i \in 1..Len(parent) |->
                     IF unscaled THEN parent[i].cs1 ELSE FMul(parent[i].cs1, w)]
    /\ cols.cs2 = [i \in 1..Len(parent) |->
                     IF unscaled THEN parent[i].cs2 ELSE FMul(parent[i].cs2, w)]

\* the columns of a table of a constructed record
ColumnsOf(tab) == IF prog = "elements" THEN df_to_shell_data(tab) ELSE tab

\* C6: in every constructed record the table at each position is the table
\* of the parent orbital its label names (same principal quantum number),
\* scaled by 1/3 for p1/2, 2/3 for p3/2, 2/5 for d3/2, 3/5 for d5/2, and
\* unscaled for an s sub-shell
C6_ShellAlignment ==
    prog \in {"elements", "generate"} =>
        \A n \in 1..Len(built) :
            \A i \in 1..Len(BindingOf(built[n])) :
                /\ i <= Len(TablesOf(built[n]))
                /\ LET lab == BindingOf(built[n])[i].label
                   IN  IsSplitOf(ColumnsOf(TablesOf(built[n])[i]),
                                 ParentTable(built[n].name, lab),
                                 WeightOf(lab), IsS(lab))

\* Krypton and Argon are constructed with the 3p source loaded from file and
\* the 3d and 4p sources replaced by the placeholder
C6_Witness ==
    /\ prog = "elements" /\ pc = "done" /\ Len(built) = 3
    /\ fs[kr3p_txt].exists /\ ~fs[kr4p_txt].exists /\ ~fs[kr3d_txt].exists
    /\ built[3].shells[2] # built[3].shells[7]
    /\ built[3].shells[4] # built[3].shells[5]
    /\ built[2].shells[2] # built[2].shells[3]

(***************************************************************************)
(* Claims about the synthesizer                                            *)
(***************************************************************************)
\* every position of the binding table has a non-empty table
AllNonEmpty(el) ==
    /\ Len(el.shells) = Len(el.binding)
    /\ \A i \in 1..Len(el.shells) : Len(el.shells[i]) > 0

SubShells == 1..Len(element.binding)

\* kinetic energy of sub-shell i at photon energy E
Kinetic(i, E) == E - element.binding[i].energy - ret

\* sub-shell i is visible at photon energy E
Visible(i, E) == Kinetic(i, E) > 0 /\ emin < Kinetic(i, E) /\ Kinetic(i, E) < emax

\* sample j of tab is the nearest to e, the first of the equally near ones
IsNearest(tab, e, j) ==
    /\ \A k \in 1..Len(tab) : Abs(tab[j].PhotonEnergy - e) <= Abs(tab[k].PhotonEnergy - e)
    /\ \A k \in 1..(j - 1) : Abs(tab[k].PhotonEnergy - e) > Abs(tab[j].PhotonEnergy - e)

\* the sub-shells with positive kinetic energy at E, in index order
ActiveIdx(E) ==
    Masked([i \in SubShells |-> i], [i \in SubShells |-> Kinetic(i, E) > 0], 1)

BarEvents == SelectSeq(bars, LAMBDA ev : ev.kind = "bar")

\* C1: for an element whose shell tables are all non-empty, the cross_section
\* and beta of the peak of sub-shell i are cs0 and beta0 of the nearest sample
\* of shells[i], the table at the peak's own position of the shell list (and
\* the bar synthSpectrum draws for sub-shell i has that cs0 as its height)
C1_PositionalLookup ==
    prog = "synth" /\ AllNonEmpty(element) =>
        /\ pc = "interactive_done" =>
            \A n \in 1..Len(plot_data) :
                \A i \in SubShells :
                    element.binding[i].label = plot_data[n].shell =>
                        \E j \in 1..Len(element.shells[i]) :
                            /\ IsNearest(element.shells[i],
                                         Kinetic(i, plot_data[n].photon_energy), j)
                            /\ plot_data[n].cross_section = element.shells[i][j].cs0
                            /\ plot_data[n].beta = element.shells[i][j].beta0
        /\ pc = "static_done" /\ raised = "none" =>
            \A k \in 1..Len(BarEvents) :
                \A a \in 1..Len(BarEvents[k].height) :
                    LET i == ActiveIdx(setPhoton[k])[a]
                    IN  \E j \in 1..Len(element.shells[i]) :
                            /\ IsNearest(element.shells[i], Kinetic(i, setPhoton[k]), j)
                            /\ BarEvents[k].height[a] = element.shells[i][j].cs0

\* the element el without its sub-shell i
WithoutSubShell(el, i) ==
    [name    |-> el.name,
     binding |-> SubSeq(el.binding, 1, i - 1) \o SubSeq(el.binding, i + 1, Len(el.binding)),
     shells  |-> SubSeq(el.shells, 1, i - 1) \o SubSeq(el.shells, i + 1, Len(el.shells))]

\* C2: if shells[i] is empty, no peak carries binding_table[i].label and the
\* peaks returned are exactly those returned for the element with sub-shell i
\* removed from both the binding table and the shell list
C2_EmptyShellSkipped ==
    prog = "synth" /\ pc = "interactive_done" =>
        \A i \in SubShells :
            Len(element.shells[i]) = 0 =>
                /\ \A n \in 1..Len(plot_data) :
                       plot_data[n].shell # element.binding[i].label
                /\ plot_data = synthSpectrum_interactive(WithoutSubShell(element, i),
                                                         setPhoton, emax, emin, ret)

\* the peaks of sub-shell i in the groups of photon energy E
PeaksOf(i, E) ==
    SelectSeq(plot_data, LAMBDA p : /\ p.shell = element.binding[i].label
                                    /\ p.photon_energy = E)

Occurrences(E) == Cardinality({k \in 1..Len(setPhoton) : setPhoton[k] = E})

\* C3: for an element whose shell tables are all non-empty, sub-shell i has
\* exactly one peak in each group of photon energy E if its kinetic energy is
\* > 0 and strictly between emin and emax, and no peak otherwise
C3_VisibilityBoundary ==
    prog = "synth" /\ pc = "interactive_done" /\ AllNonEmpty(element) =>
        \A i \in SubShells :
            \A k \in 1..Len(setPhoton) :
                Len(PeaksOf(i, setPhoton[k])) =
                    IF Visible(i, setPhoton[k]) THEN Occurrences(setPhoton[k]) ELSE 0

\* one sub-shell sits exactly on emax, one exactly on emin, and one is visible
C3_Witness ==
    /\ prog = "synth" /\ pc = "interactive_done" /\ AllNonEmpty(element)
    /\ \E i \in SubShells : \E k \in 1..Len(setPhoton) : Kinetic(i, setPhoton[k]) = emax
    /\ \E i \in SubShells : \E k \in 1..Len(setPhoton) :
           Kinetic(i, setPhoton[k]) = emin /\ emin > 0
    /\ \E i \in SubShells : \E k \in 1..Len(setPhoton) :
           Visible(i, setPhoton[k]) /\ Len(PeaksOf(i, setPhoton[k])) = 1
    /\ Len(plot_data) < Len(setPhoton) * Len(element.binding)

\* the number of visible sub-shells at photon energy E
VisibleCount(E) == Cardinality({i \in SubShells : Visible(i, E)})

\* the iteration whose group holds the n-th peak, groups being counted from
\* iteration k on
RECURSIVE GroupIndex(_, _)
GroupIndex(n, k) ==
    IF k >= Len(setPhoton) \/ n <= VisibleCount(setPhoton[k]) THEN k
    ELSE GroupIndex(n - VisibleCount(setPhoton[k]), k + 1)

\* C4: for an element whose shell tables are all non-empty, every peak's
\* shell is a label of the binding table, its photon_energy is the photon
\* energy of the group it lies in, and its energy is that photon energy minus
\* the binding energy stored under its label minus ret
C4_PeakEnergy ==
    prog = "synth" /\ pc = "interactive_done" /\ AllNonEmpty(element) =>
        \A n \in 1..Len(plot_data) :
            /\ plot_data[n].photon_energy = setPhoton[GroupIndex(n, 1)]
            /\ \E i \in SubShells :
                /\ element.binding[i].label = plot_data[n].shell
                /\ plot_data[n].energy = Kinetic(i, plot_data[n].photon_energy)

\* a peak was returned for a sub-shell that follows an inactive one
C4_Witness ==
    /\ prog = "synth" /\ pc = "interactive_done" /\ AllNonEmpty(element)
    /\ \E n \in 1..Len(plot_data) : \E i \in SubShells : \E h \in SubShells :
        /\ h < i
        /\ Kinetic(h, plot_data[n].photon_energy) <= 0
        /\ element.binding[i].label = plot_data[n].shell
        /\ element.binding[h].energy # element.binding[i].energy

RECURSIVE ConcatGroups(_)
ConcatGroups(k) ==
    IF k > Len(setPhoton) THEN <<>>
    ELSE synthSpectrum_interactive(element, <<setPhoton[k]>>, emax, emin, ret)
         \o ConcatGroups(k + 1)

\* position of a label in the binding table
IndexOfLabel(lab) == CHOOSE i \in SubShells : element.binding[i].label = lab

\* C9: the output for [E1, ..., En] is the concatenation, in that order, of
\* the outputs for [E1], ..., [En], and within the output for one photon
\* energy the peaks appear in increasing sub-shell index order
C9_GroupConcatenation ==
    prog = "synth" /\ pc = "interactive_done" =>
        /\ plot_data = ConcatGroups(1)
        /\ \A k \in 1..Len(setPhoton) :
            LET g == synthSpectrum_interactive(element, <<setPhoton[k]>>, emax, emin, ret)
            IN  \A a \in 1..Len(g) : \A b \in 1..Len(g) :
                    a < b => IndexOfLabel(g[a].shell) < IndexOfLabel(g[b].shell)

\* two different photon energies, each with a non-empty group, one of them
\* with at least two peaks
C9_Witness ==
    /\ prog = "synth" /\ pc = "interactive_done"
    /\ Len(setPhoton) = 2 /\ setPhoton[1] # setPhoton[2]
    /\ \E n \in 1..Len(plot_data) : plot_data[n].photon_energy = setPhoton[1]
    /\ \E n \in 1..Len(plot_data) : plot_data[n].photon_energy = setPhoton[2]
    /\ Len(plot_data) >= 3

(***************************************************************************)
(* The lookup program: the nearest-sample selection of both synthesizers   *)
(*   nearestIdx = (orbital["Photon Energy"] - e).abs().idxmin()            *)
(*   nearestRow = orbital.loc[nearestIdx]                                  *)
(***************************************************************************)
Reverse(s) == [i \in 1..Len(s) |-> s[Len(s) + 1 - i]]

\* a table with a repeated photon energy
TabDup ==
    << Row(2000, FDiv(1, 4), Zero, Zero, FDiv(1, 2), Zero, Zero),
       Row(6000, FDiv(1, 2), Zero, Zero, FDiv(3, 4), Zero, Zero),
       Row(2000, FDiv(3, 4), Zero, Zero, FDiv(1, 1), Zero, Zero),
       Row(6000, FDiv(1, 8), Zero, Zero, FDiv(5, 4), Zero, Zero) >>

LookupTables == { DummyData, Reverse(DummyData), TabA, TabDup }

QuerySet == { 500 * k : k \in 0..MaxQueryStep } \cup { 4515 }

InitLookup ==
    /\ prog = "lookup" /\ pc = "ready"
    /\ table \in LookupTables
    /\ query \in QuerySet
    /\ selected = <<>>
    /\ ScaleIdle /\ BuildIdle /\ SynthIdle /\ AugerIdle

Lookup ==
    /\ prog = "lookup" /\ pc = "ready"
    /\ LET idx == nearestIdx(table, query)
       IN  selected' = <<idx, table[idx]>>
    /\ pc' = "looked"
    /\ UNCHANGED <<prog, table, query, scaleVars, buildVars, synthVars, augerVars>>

NextLookup == Lookup

SpecLookup == InitLookup /\ [][NextLookup]_vars

\* C10: the selected sample is nearest to the query by absolute difference,
\* and among equally near samples it is the one with the lowest index; for
\* samples [100, 200, 500, 1000] eV and the query 150 eV it is the sample at
\* 100 eV
C10_NearestFirst ==
    prog = "lookup" /\ pc = "looked" =>
        LET j == selected[1]
            d(k) == Abs(table[k].PhotonEnergy - query)
        IN  /\ j \in 1..Len(table)
            /\ selected[2] = table[j]
            /\ \A k \in 1..Len(table) : d(j) <= d(k)
            /\ \A k \in 1..(j - 1) : d(k) > d(j)
            /\ (table = DummyData /\ query = 1500) => selected[2].PhotonEnergy = 1000

\* the query 150 eV lies midway between the samples at 100 and 200 eV
C10_Witness ==
    /\ prog = "lookup" /\ pc = "looked"
    /\ table = DummyData /\ query = 1500
    /\ Abs(table[1].PhotonEnergy - query) = Abs(table[2].PhotonEnergy - query)
    /\ selected[1] = 1

(***************************************************************************)
(* Claims about degenerate inputs of the synthesizer                       *)
(***************************************************************************)
NoShellData == \A i \in 1..Len(element.shells) : Len(element.shells[i]) = 0

NothingVisible ==
    \A k \in 1..Len(setPhoton) : \A i \in SubShells : ~Visible(i, setPhoton[k])

\* C11: synthSpectrum_interactive raises nothing, and it returns the empty
\* sequence when the photon-energy sequence is empty, when every shell table
\* of the element is empty, and when no sub-shell is visible at any of the
\* photon energies (kinetic energy <= 0 or outside the window)
C11_EmptyInputTolerance ==
    prog = "synth" /\ pc = "interactive_done" =>
        /\ raised = "none"
        /\ (setPhoton = <<>> \/ NoShellData \/ NothingVisible) => plot_data = <<>>

\* every table is empty although a sub-shell is visible at a photon energy
C11_Witness ==
    /\ prog = "synth" /\ pc = "interactive_done"
    /\ NoShellData /\ ~NothingVisible /\ setPhoton # <<>>
    /\ Len(element.shells) = MaxShells
    /\ plot_data = <<>> /\ raised = "none"

(***************************************************************************)
(* The synthesizer called with an element whose binding table and shell    *)
(* list differ in length                                                   *)
(***************************************************************************)
MismatchedElements ==
    UNION { { [name    |-> "Test",
               binding |-> [i \in 1..n |-> [label |-> neonLabels[i], energy |-> en[i]]],
               shells  |-> sh] :
              en \in [1..n -> BindSet],
              sh \in UNION { [1..m -> TableSet] : m \in (0..MaxShells) \ {n} } } :
            n \in 1..Min2(MaxShells, Len(neonLabels)) }

InitMismatch ==
    /\ prog = "synth" /\ pc = "ready"
    /\ element \in MismatchedElements
    /\ setPhoton \in PhotonSeqs
    /\ \E win \in Windows : emin = win[1] /\ emax = win[2]
    /\ ret \in RetSet
    /\ plot_data = <<>> /\ bars = <<>> /\ raised = "none" /\ first_call = <<>>
    /\ ScaleIdle /\ BuildIdle /\ LookupIdle /\ AugerIdle

SpecMismatch == InitMismatch /\ [][NextSynth]_vars

\* C12: when the binding table and the shell list of the element differ in
\* length, either synthesizer fails at entry with InvariantViolation: it
\* returns no peak and draws nothing, so nothing is computed by pairing the
\* two sequences up to the shorter one
C12_FailFast ==
    (/\ prog = "synth" /\ pc \in {"interactive_done", "static_done"}
     /\ Len(element.binding) # Len(element.shells))
        => raised = "InvariantViolation" /\ plot_data = <<>> /\ bars = <<>>

\* the call returned peaks although the lengths differ
C12_SilentTruncation ==
    /\ prog = "synth" /\ pc = "interactive_done"
    /\ Len(element.binding) > Len(element.shells)
    /\ raised = "none" /\ plot_data # <<>>

(***************************************************************************)
(* The synthesizer called with Neon                                        *)
(***************************************************************************)
\* Neon as elements.py builds it from the database, and Neon's binding table
\* with other non-empty tables
NeonElements ==
    { neon(db) : db \in Databases } \cup
    { [name |-> "Neon", binding |-> neonBinding, shells |-> sh] :
        sh \in [1..Len(neonBinding) -> {TabA, DummyData}] }

InitNeon ==
    /\ prog = "synth" /\ pc = "ready"
    /\ element \in NeonElements
    /\ setPhoton \in PhotonSeqs
    /\ \E win \in Windows : emin = win[1] /\ emax = win[2]
    /\ ret \in RetSet
    /\ plot_data = <<>> /\ bars = <<>> /\ raised = "none" /\ first_call = <<>>
    /\ ScaleIdle /\ BuildIdle /\ LookupIdle /\ AugerIdle

SpecNeon == InitNeon /\ [][NextSynth]_vars

NeonScenario ==
    /\ [i \in 1..Len(element.binding) |-> element.binding[i].label]
          = <<L_1s, L_2s, L_2p1_2, L_2p3_2>>
    /\ [i \in 1..Len(element.binding) |-> element.binding[i].energy]
          = <<8702, 485, 217, 216>>
    /\ AllNonEmpty(element)
    /\ setPhoton = <<14866>> /\ ret = 0 /\ emin = 0 /\ emax = 8000

Unreadable(db, name) ==
    [db EXCEPT ![name] = [exists |-> TRUE, readable |-> FALSE, content |-> <<>>]]

ReadFiles == { ne1s_txt, ne2p_txt, xe5p_txt }

InitRead ==
    /\ prog = "read" /\ pc = "first"
    /\ filename \in ReadFiles
    /\ \E db \in Databases : fs \in { db, Unreadable(db, filename) }
    /\ stdout = <<>> /\ built = <<>> /\ elements_data = <<>>
    /\ ScaleIdle /\ SynthIdle /\ LookupIdle /\ AugerIdle

\* one call of safe_read_csv(filename)
ReadCsv ==
    /\ prog = "read" /\ pc \in {"first", "second"}
    /\ IF read_csv_raises(fs, filename)
       THEN /\ raised' = "OSError"
            /\ pc' = "aborted"
            /\ UNCHANGED <<built, stdout>>
       ELSE /\ built' = Append(built, safe_read_csv(fs, filename))
            /\ stdout' = stdout \o Warnings(fs, <<filename>>)
            /\ pc' = IF pc = "first" THEN "second" ELSE "done"
            /\ UNCHANGED raised
    /\ UNCHANGED <<prog, fs, filename, elements_data, element, setPhoton, emax,
                   emin, ret, plot_data, bars, first_call, scaleVars,
                   lookupVars, augerVars>>

NextRead == ReadCsv

SpecRead == InitRead /\ [][NextRead]_vars

\* the placeholder: photon energies 100, 200, 500, 1000 eV; cs0 1.0, 0.8, 0.5,
\* 0.3; beta0 1.5, 1.4, 1.3, 1.2; the other columns 0
PlaceholderTable ==
    << Row(1000,  FDiv(10, 10), Zero, Zero, FDiv(15, 10), Zero, Zero),
       Row(2000,  FDiv(8, 10),  Zero, Zero, FDiv(14, 10), Zero, Zero),
       Row(5000,  FDiv(5, 10),  Zero, Zero, FDiv(13, 10), Zero, Zero),
       Row(10000, FDiv(3, 10),  Zero, Zero, FDiv(12, 10), Zero, Zero) >>

\* every load made so far returned the placeholder and printed a warning
\* naming the file, and none raised
FellBack ==
    /\ raised = "none"
    /\ built # <<>>
    /\ \A i \in 1..Len(built) : built[i] = PlaceholderTable
    /\ Len(stdout) = Len(built)
    /\ \A i \in 1..Len(stdout) : stdout[i] = [kind |-> "dummy", text |-> filename]

\* C14: safe_read_csv of a source that is absent, or that exists and cannot
\* be read, does not fail: each load returns the fixed placeholder table of 4
\* samples and prints a warning, so two loads return identical tables
C14_PlaceholderFallback ==
    (/\ prog = "read" /\ pc # "first"
     /\ (~fs[filename].exists \/ ~fs[filename].readable)) => FellBack

\* the part of C14 about an absent source
AbsentFallback ==
    (prog = "read" /\ pc # "first" /\ ~fs[filename].exists) =>
        FellBack /\ (pc = "done" => built[1] = built[2])

(***************************************************************************)
(* The Auger program: build_element_data's two calls for one element       *)
(*   raw = read_auger_file("neAuger.txt")                                  *)
(*   auger = process_auger_data(raw, neon_binding)                         *)
(***************************************************************************)
\* the files of at most MaxLines lines
MaxLines == 3
AugerTexts == UNION { [1..n -> AugerLines] : n \in 0..MaxLines }

\* the file read for an element and the element's binding table
AugerCalls == { <<neAuger_txt, neon_binding>>, <<arAuger_txt, argon_binding>> }

InitAuger ==
    /\ prog = "auger" /\ pc = "start"
    /\ \E call \in AugerCalls :
          /\ binding_energies = call[2]
          /\ \/ auger_file = [name |-> call[1], exists |-> FALSE, lines |-> <<>>]
             \/ \E text \in AugerTexts :
                   auger_file = [name |-> call[1], exists |-> TRUE, lines |-> text]
    /\ auger_peaks = <<>> /\ processed = <<>>
    /\ fs = <<>> /\ stdout = <<>> /\ built = <<>> /\ elements_data = <<>>
    /\ filename = <<>>
    /\ ScaleIdle /\ SynthIdle /\ LookupIdle

ReadAuger ==
    /\ prog = "auger" /\ pc = "start"
    /\ LET res == read_auger_file(auger_file)
       IN  /\ auger_peaks' = res.auger_peaks
           /\ stdout' = stdout \o res.out
    /\ pc' = "read"
    /\ UNCHANGED <<prog, auger_file, binding_energies, processed, fs, built,
                   elements_data, filename, scaleVars, synthVars, lookupVars>>

ProcessAuger ==
    /\ prog = "auger" /\ pc = "read"
    /\ LET res == process_auger_data(auger_peaks, binding_energies)
       IN  /\ processed' = res.processed
           /\ stdout' = stdout \o res.out
    /\ pc' = "done"
    /\ UNCHANGED <<prog, auger_file, binding_energies, auger_peaks, fs, built,
                   elements_data, filename, scaleVars, synthVars, lookupVars>>

NextAuger == ReadAuger \/ ProcessAuger

SpecAuger == InitAuger /\ [][NextAuger]_vars

(***************************************************************************)
(* Claims about the Auger records                                          *)
(***************************************************************************)
\* the comma-separated fields of a line, as written
Fields(l) == split(strip(l, Whitespace), ",")

\* a non-blank line of at least five fields
IsRecord(l) == strip(l, Whitespace) # <<>> /\ Len(Fields(l)) >= 5

\* a record whose kinetic energy and relative intensity are numerals
WellFormed(l) ==
    /\ IsRecord(l)
    /\ float_parses(Unquote(Fields(l)[2]))
    /\ float_parses(Unquote(Fields(l)[4]))

\* a field without the whitespace and quotes around it
Bare(field) == strip(field, Whitespace \cup Quote)

Printed(kind) == SelectSeq(stdout, LAMBDA m : m.kind = kind)

\* C16: read_auger_file returns for an absent file the empty list, and for a
\* file the peaks of its well-formed records in file order: a record whose
\* kinetic energy or relative intensity is not a numeral is left out with a
\* warning that quotes the line, and the records after it are still read
C16_BadRecordsSkipped ==
    prog = "auger" /\ pc # "start" =>
        IF ~auger_file.exists
        THEN auger_peaks = <<>> /\ Printed("parse") = <<>>
        ELSE LET good == SelectSeq(auger_file.lines, WellFormed)
                 bad  == SelectSeq(auger_file.lines,
                                   LAMBDA l : IsRecord(l) /\ ~WellFormed(l))
             IN  /\ Len(auger_peaks) = Len(good)
                 /\ \A i \in 1..Len(good) :
                       /\ auger_peaks[i].peak_name = Unquote(Fields(good[i])[1])
                       /\ auger_peaks[i].kinetic_energy = float(Unquote(Fields(good[i])[2]))
                       /\ auger_peaks[i].channel = Bare(Fields(good[i])[3])
                       /\ auger_peaks[i].relative_intensity = float(Unquote(Fields(good[i])[4]))
                       /\ auger_peaks[i].origin = Bare(Fields(good[i])[5])
                 /\ Printed("parse") =
                       [i \in 1..Len(bad) |-> ParseWarning(strip(bad[i], Whitespace))]
                 /\ (auger_file.lines = <<Line_1s, Line_bad_energy, Line_2p>> =>
                       /\ Len(auger_peaks) = 2
                       /\ auger_peaks[1].kinetic_energy = 8040
                       /\ auger_peaks[2].kinetic_energy = 205)

\* a record with a non-numeric kinetic energy lies between two good records
C16_Witness ==
    /\ prog = "auger" /\ pc = "read"
    /\ auger_file.exists
    /\ auger_file.lines = <<Line_1s, Line_bad_energy, Line_2p>>
    /\ Len(auger_peaks) = 2
    /\ auger_peaks[1].peak_name = <<"K", "L", "L">>
    /\ auger_peaks[2].peak_name = <<"L", "M", "M">>
    /\ auger_peaks[2].relative_intensity = 5
    /\ auger_peaks[2].channel = <<"b">>
    /\ Len(stdout) = 1

Labels == [k \in 1..Len(binding_energies) |-> binding_energies[k].label]

\* origin is contained in some label of the binding table
Resolves(origin) == \E k \in 1..Len(Labels) : IsSubstring(origin, Labels[k])

\* the first label, in the order of the table, that contains origin
FirstLabel(origin) ==
    Labels[CHOOSE k \in 1..Len(Labels) :
               /\ IsSubstring(origin, Labels[k])
               /\ \A h \in 1..(k - 1) : ~IsSubstring(origin, Labels[h])]

\* C15: process_auger_data keeps, in input order, the records whose origin is
\* contained in a label of the binding table; each carries its peak_name,
\* kinetic_energy, channel and intensity factor unchanged and the first label
\* in table order that contains its origin; every other record is dropped
\* with a warning and the records after it are still processed
C15_FirstMatchingLabel ==
    prog = "auger" /\ pc = "done" =>
        LET kept    == SelectSeq(auger_peaks, LAMBDA p : Resolves(p.origin))
            dropped == SelectSeq(auger_peaks, LAMBDA p : ~Resolves(p.origin))
        IN  /\ Len(processed) = Len(kept)
            /\ \A i \in 1..Len(kept) :
                  /\ processed[i].peak_name = kept[i].peak_name
                  /\ processed[i].kinetic_energy = kept[i].kinetic_energy
                  /\ processed[i].channel = kept[i].channel
                  /\ processed[i].intensity_factor = kept[i].relative_intensity
                  /\ processed[i].origin = kept[i].origin
                  /\ processed[i].origin_binding_key = FirstLabel(kept[i].origin)
            /\ Printed("origin") =
                  [i \in 1..Len(dropped) |-> OriginWarning(dropped[i].origin)]

\* an unresolved record precedes a record whose origin 2p is contained in
\* both 2p1/2 and 2p3/2
C15_Witness ==
    /\ prog = "auger" /\ pc = "done"
    /\ binding_energies = neon_binding
    /\ auger_file.lines = <<Line_4f, Line_2p, Line_1s>>
    /\ Len(processed) = 2
    /\ processed[1].origin = <<"2", "p">>
    /\ processed[1].origin_binding_key = L_2p1_2
    /\ IsSubstring(processed[1].origin, L_2p3_2)
    /\ processed[2].origin_binding_key = L_1s
    /\ Len(Printed("origin")) = 1

\* C19: every peak process_auger_data retains has a non-empty origin, and its
\* origin_binding_key is a label of the binding table that contains the
\* origin; a record with an empty origin is dropped as unresolved
C19_NonEmptyOrigin ==
    prog = "auger" /\ pc = "done" =>
        /\ \A i \in 1..Len(processed) :
              /\ processed[i].origin # <<>>
              /\ \E k \in 1..Len(Labels) : processed[i].origin_binding_key = Labels[k]
              /\ IsSubstring(processed[i].origin, processed[i].origin_binding_key)
        /\ Len(processed) =
              Len(SelectSeq(auger_peaks, LAMBDA p : p.origin # <<>> /\ Resolves(p.origin)))

(***************************************************************************)
(* interactive_spectrum.generate_all_element_data                          *)
(***************************************************************************)
\* the dictionary appended for one orbital
orbital_json(orbital) ==
    IF Len(orbital) > 0
    THEN [photon_energy |-> [i \in 1..Len(orbital) |-> orbital[i].PhotonEnergy],
          cs0           |-> [i \in 1..Len(orbital) |-> orbital[i].cs0],
          beta0         |-> [i \in 1..Len(orbital) |-> orbital[i].beta0]]
    ELSE [photon_energy |-> <<>>, cs0 |-> <<>>, beta0 |-> <<>>]

\* a loop that appends nothing for an empty orbital
RECURSIVE ShellDataLoop_omit(_, _, _)
ShellDataLoop_omit(shells, k, shell_data) ==
    IF k > Len(shells) THEN shell_data
    ELSE ShellDataLoop_omit(shells, k + 1,
             IF Len(shells[k]) > 0 THEN Append(shell_data, orbital_json(shells[k]))
             ELSE shell_data)

\* for orbital in element[2]: shell_data.append(...), from orbital k on
RECURSIVE ShellDataLoop(_, _, _)
ShellDataLoop(shells, k, shell_data) ==
    IF k > Len(shells) THEN shell_data
    ELSE ShellDataLoop(shells, k + 1, Append(shell_data, orbital_json(shells[k])))

\* element[0].lower()
lower(nm) ==
    CASE nm = "Neon" -> "neon" [] nm = "Argon" -> "argon" [] nm = "Krypton" -> "krypton"

\* the entries of elements_data in insertion order, each with its key
generate_all_element_data(elements) ==
    [e \in 1..Len(elements) |->
        [key              |-> lower(elements[e].name),
         name             |-> elements[e].name,
         binding_energies |-> elements[e].binding,
         shell_data       |-> ShellDataLoop(elements[e].shells, 1, <<>>)]]

(***************************************************************************)
(* The serializing programs: generate_all_element_data after the import of *)
(* elements.py, and build_element_data                                     *)
(***************************************************************************)
\* the directory db in which the file name exists and holds no sample
Emptied(db, name) ==
    [db EXCEPT ![name] = [exists |-> TRUE, readable |-> TRUE, content |-> <<>>]]

EmptyFiles == { ne2s_txt, ar2p_txt, kr3s_txt, xe5p_txt }

SerializeDatabases ==
    Databases \cup
    { Emptied(db, f) : db \in {Database({}), Database(FileSet)}, f \in EmptyFiles }

InitSerialize ==
    /\ prog \in {"elements", "generate"} /\ pc = "neon"
    /\ \E db \in SerializeDatabases : \E aug \in AugerDirs :
          /\ fs = db @@ aug
          /\ prog = "elements" => \A f \in AugerFileSet : ~aug[f].exists
    /\ stdout = <<>> /\ built = <<>> /\ elements_data = <<>> /\ filename = <<>>
    /\ ScaleIdle /\ SynthIdle /\ LookupIdle /\ AugerIdle

GenerateAll ==
    /\ prog = "elements" /\ pc = "done"
    /\ elements_data' = generate_all_element_data(built)
    /\ pc' = "serialized"
    /\ UNCHANGED <<prog, fs, stdout, built, filename, scaleVars, synthVars,
                   lookupVars, augerVars>>

NextSerialize == NextBuild \/ GenerateAll

SpecSerialize == InitSerialize /\ [][NextSerialize]_vars

\* the entries serialized so far, and the binding table and the tables the
\* e-th of them was made from
Serialized == IF prog = "elements" THEN elements_data ELSE built

SourceBinding(e) ==
    IF prog = "elements" THEN built[e].binding
    ELSE <<neon_binding, argon_binding, krypton_binding, xenon_binding>>[e]

SourceTables(e) ==
    IF prog = "elements" THEN built[e].shells
    ELSE <<neon_shells(fs), argon_shells(fs), krypton_shells(fs), xenon_shells(fs)>>[e]

\* C17: in the serialized form of every element, of generate_all_element_data
\* and of build_element_data, binding_energies lists the labels of the binding
\* table in its order and shell_data has one entry per label, entry i holding
\* the columns of the i-th table; an empty table is serialized as an entry of
\* empty arrays at its own position
C17_SerializedPositions ==
    prog \in {"elements", "generate"} =>
        /\ (prog = "elements" /\ pc = "serialized") => Len(elements_data) = 3
        /\ \A e \in 1..Len(Serialized) :
              LET entry == Serialized[e]
                  tabs  == SourceTables(e)
              IN  /\ entry.binding_energies = SourceBinding(e)
                  /\ Len(entry.shell_data) = Len(entry.binding_energies)
                  /\ \A i \in 1..Len(tabs) :
                        /\ entry.shell_data[i].photon_energy
                             = [j \in 1..Len(tabs[i]) |-> tabs[i][j].PhotonEnergy]
                        /\ entry.shell_data[i].cs0
                             = [j \in 1..Len(tabs[i]) |-> tabs[i][j].cs0]
                        /\ entry.shell_data[i].beta0
                             = [j \in 1..Len(tabs[i]) |-> tabs[i][j].beta0]
                        /\ Len(tabs[i]) = 0 =>
                             /\ entry.shell_data[i].photon_energy = <<>>
                             /\ entry.shell_data[i].cs0 = <<>>
                             /\ entry.shell_data[i].beta0 = <<>>

\* Neon was serialized with an empty 2s table between two tables with samples
C17_Witness ==
    /\ prog = "elements" /\ pc = "serialized"
    /\ fs[ne2s_txt].exists /\ fs[ne2s_txt].content = <<>>
    /\ elements_data[1].key = "neon"
    /\ Len(elements_data[1].shell_data) = 4
    /\ elements_data[1].shell_data[1].cs0 # <<>>
    /\ elements_data[1].shell_data[2].cs0 = <<>>
    /\ elements_data[1].shell_data[3].cs0 # <<>>

(***************************************************************************)
(* A session: synthSpectrum_interactive called again and again on one      *)
(* element object                                                          *)
(***************************************************************************)
\* a list that survives from one call to the next
plot_data_at_entry_kept(previous) == previous

\* plot_data = []: the list a call starts from, whatever the list of the
\* previous call was
plot_data_at_entry(previous) == <<>>

SessionElements ==
    { neon(db) : db \in {Database({}), Database({ne1s_txt}), Database(FileSet)} } \cup
    { [name |-> "Test", binding |-> <<[label |-> L_2s, energy |-> 485]>>, shells |-> <<tab>>] :
        tab \in TableSet }

SessionArguments ==
    { <<photons, win, w>> :
        photons \in { <<>>, <<5000>>, <<14866>>, <<14866, 5000>> },
        win \in { <<0, 10000>>, <<0, 8000>> },
        w \in RetSet }

InitSession ==
    /\ prog = "session" /\ pc = "ready"
    /\ element \in SessionElements
    /\ setPhoton = <<>> /\ emax = 0 /\ emin = 0 /\ ret = 0
    /\ plot_data = <<>> /\ bars = <<>> /\ raised = "none" /\ first_call = <<>>
    /\ ScaleIdle /\ BuildIdle /\ LookupIdle /\ AugerIdle

\* one call; the function reads the element and writes none of its tables.
\* first_call records the first call of the session, and whether a call with
\* other arguments has been made since
Call ==
    /\ prog = "session"
    /\ \E args \in SessionArguments :
          LET result == PhotonLoop(element, args[1], args[2][2], args[2][1], args[3],
                                   1, plot_data_at_entry(plot_data))
          IN  /\ setPhoton' = args[1]
              /\ emin' = args[2][1] /\ emax' = args[2][2]
              /\ ret' = args[3]
              /\ plot_data' = result
              /\ first_call' =
                    IF first_call = <<>>
                    THEN <<[element |-> element, args |-> args, result |-> result,
                            others |-> FALSE]>>
                    ELSE <<[first_call[1] EXCEPT
                              !.others = @ \/ args # first_call[1].args]>>
    /\ pc' = "called"
    /\ UNCHANGED <<prog, element, bars, raised, scaleVars, buildVars, lookupVars,
                   augerVars>>

NextSession == Call

SpecSession == InitSession /\ [][NextSession]_vars

====
